---- MODULE Spec2Model ----
(***************************************************************************)
(* madVisor: the metric ingestion and time-series engine of                *)
(* cmd/madvisor/main.go (ring buffer series, series store, exposition      *)
(* parser, scrape scheduler).                                              *)
(*                                                                         *)
(* Go strings are modelled as sequences of one-character strings, so that  *)
(* concatenation, splitting and the byte-wise order of sort.Strings are    *)
(* computed and not assumed.  A Go map[string]string is a record           *)
(* [isNil, kv] whose kv is a function from keys to values; the order in    *)
(* which `range` enumerates a map is an explicit argument.                 *)
(***************************************************************************)
EXTENDS Integers, Sequences, FiniteSets, TLC

\* ------------------------------------------------------------------ bounds

\* pushes performed by the sequential ring-buffer specification
MaxPushes == 245
\* the first pushed value of a run is drawn from 0..MaxSeed
MaxSeed == 2
\* store.update calls made by the scrape tasks of the store specification
MaxUpdates == 2
\* advances of the clock in the store specification
MaxTicks == 1
\* store.update calls made while the refresh task runs
MaxReadUpdates == 2
\* lines of a response body in the parser specification
MaxBodyLen == 3
\* rounds of scrapes the ticker starts in the scheduler specification
MaxRounds == 1
\* pushAt calls made by the rate specification after its prefill
MaxRatePushes == 2
\* rules in a units file named on the command line
MaxRules == 2
\* characters of the filter text in the navigation specification
MaxFilterLen == 2
\* how far moveDown takes the series-table selection in the navigation specification
MaxSeriesIdx == 2

\* rows the series table selection is moved down
MaxSeriesMoves == 12

\* keys handled while one refresh tick is under way
MaxTickKeys == 1

\* ------------------------------------------------------- program constants

ringSize == 120

\* ------------------------------------------------------------------ strings

\* printable ASCII in byte order (byte 96 is held by a placeholder no string
\* uses): Ord is the byte value Go compares strings by
AsciiTable ==
  << " ", "!", "\"", "#", "$", "%", "&", "'", "(", ")", "*", "+", ",", "-", ".", "/",
     "0", "1", "2", "3", "4", "5", "6", "7", "8", "9", ":", ";", "<", "=", ">", "?",
     "@", "A", "B", "C", "D", "E", "F", "G", "H", "I", "J", "K", "L", "M", "N", "O",
     "P", "Q", "R", "S", "T", "U", "V", "W", "X", "Y", "Z", "[", "\\", "]", "^", "_",
     "(backquote)", "a", "b", "c", "d", "e", "f", "g", "h", "i", "j", "k", "l", "m", "n", "o",
     "p", "q", "r", "s", "t", "u", "v", "w", "x", "y", "z", "{", "|", "}", "~" >>

Ord(c) == 31 + (CHOOSE i \in 1..Len(AsciiTable) : AsciiTable[i] = c)

MinOf(S) == CHOOSE x \in S : \A y \in S : x <= y

MaxOf(S) == CHOOSE x \in S : \A y \in S : y <= x

Min2(a, b) == IF a <= b THEN a ELSE b

\* Go's < on strings: byte-wise lexicographic
StrLess(a, b) ==
  LET n == Min2(Len(a), Len(b))
      D == {i \in 1..n : a[i] # b[i]}
  IN  IF D = {} THEN Len(a) < Len(b)
      ELSE Ord(a[MinOf(D)]) < Ord(b[MinOf(D)])

\* sort.Strings: the ascending arrangement of the list (insertion by rank)
RECURSIVE SortStrings(_)
SortStrings(s) ==
  IF s = << >> THEN << >>
  ELSE LET rest == SortStrings(Tail(s))
           x    == Head(s)
           k    == Cardinality({i \in 1..Len(rest) : StrLess(rest[i], x)})
       IN  SubSeq(rest, 1, k) \o <<x>> \o SubSeq(rest, k + 1, Len(rest))

\* strings.Join(parts, sep)
RECURSIVE Join(_, _)
Join(parts, sep) ==
  IF parts = << >> THEN << >>
  ELSE IF Len(parts) = 1 THEN parts[1]
  ELSE parts[1] \o sep \o Join(Tail(parts), sep)

\* strings.Index(s, c) for a one-byte separator, 0-based, -1 when absent
Index(s, c) ==
  LET P == {i \in 1..Len(s) : s[i] = c}
  IN  IF P = {} THEN -1 ELSE MinOf(P) - 1

\* strings.LastIndex(s, c) for a one-byte separator, 0-based, -1 when absent
LastIndex(s, c) ==
  LET P == {i \in 1..Len(s) : s[i] = c}
  IN  IF P = {} THEN -1 ELSE MaxOf(P) - 1

\* strings.HasPrefix(s, p)
HasPrefix(s, p) == Len(s) >= Len(p) /\ SubSeq(s, 1, Len(p)) = p

\* Go's s[from:] and s[:to] with 0-based byte offsets
SliceFrom(s, from) == SubSeq(s, from + 1, Len(s))

SliceTo(s, to) == SubSeq(s, 1, to)

\* the elements of a list
Elems(q) == { q[i] : i \in 1..Len(q) }

\* all orders in which the elements of a finite set can be enumerated
RECURSIVE Enumerations(_)
Enumerations(S) ==
  IF S = {} THEN { << >> }
  ELSE UNION { { <<x>> \o e : e \in Enumerations(S \ {x}) } : x \in S }

\* ------------------------------------------------------------- Go maps

NilMap == [isNil |-> TRUE, kv |-> << >>]

MakeMap(f) == [isNil |-> FALSE, kv |-> f]

\* len(m): 0 for a nil map
MapLen(m) == IF m.isNil THEN 0 ELSE Cardinality(DOMAIN m.kv)

\* the key/value pairs of a map: what a label set is, nil and empty alike
Pairs(m) == IF m.isNil THEN {} ELSE {<<k, m.kv[k]>> : k \in DOMAIN m.kv}

\* the orders in which `for k := range m` may yield the keys
RangeOrders(m) == IF m.isNil THEN { << >> } ELSE Enumerations(DOMAIN m.kv)

\* ----------------------------------------------------- ring buffer series

\* time.Time{}: the zero time of a slot never written
ZeroTime == 0

\* &metricSeries{key, name, labels, help, mtype, values: make(..), times: make(..)}
newSeries(key, name, labels, help, mtype) ==
  [ key |-> key, name |-> name, labels |-> labels, help |-> help, mtype |-> mtype,
    values |-> [i \in 0..ringSize - 1 |-> 0],
    times  |-> [i \in 0..ringSize - 1 |-> ZeroTime],
    idx |-> 0, full |-> FALSE ]

\* the four writes of push, in program order
pushWriteValue(s, v) == [s EXCEPT !.values[s.idx] = v]

pushWriteTime(s, now) == [s EXCEPT !.times[s.idx] = now]

pushAdvance(s) == [s EXCEPT !.idx = (s.idx + 1) % ringSize]

\* a push that sets the flag when it writes the last slot but one
pushSetFull_OneEarly(s) == IF s.idx = ringSize - 1 THEN [s EXCEPT !.full = TRUE] ELSE s

pushSetFull(s) == IF s.idx = 0 THEN [s EXCEPT !.full = TRUE] ELSE s

\* metricSeries.pushAt(v, t)
pushAt(s, v, t) == pushSetFull(pushAdvance(pushWriteTime(pushWriteValue(s, v), t)))

\* metricSeries.push(v), with now the time.Now() it reads
push(s, v, now) == pushAt(s, v, now)

\* metricSeries.count()
count(s) == IF s.full THEN ringSize ELSE s.idx

\* a slice() that returns the storage order without unrolling the wrap
slice_NoUnroll(s) ==
  IF ~s.full THEN [j \in 1..s.idx |-> s.values[j - 1]]
  ELSE [j \in 1..ringSize |-> s.values[j - 1]]

\* metricSeries.slice(): a copy, oldest first
slice(s) ==
  IF ~s.full THEN [j \in 1..s.idx |-> s.values[j - 1]]
  ELSE [j \in 1..ringSize |->
          IF j - 1 < ringSize - s.idx THEN s.values[s.idx + (j - 1)]
          ELSE s.values[(j - 1) - (ringSize - s.idx)]]

\* the timestamps in the order slice() gives the values
timesSlice(s) ==
  IF ~s.full THEN [j \in 1..s.idx |-> s.times[j - 1]]
  ELSE [j \in 1..ringSize |->
          IF j - 1 < ringSize - s.idx THEN s.times[s.idx + (j - 1)]
          ELSE s.times[(j - 1) - (ringSize - s.idx)]]

\* metricSeries.last()
last(s) ==
  IF s.idx = 0 /\ ~s.full THEN 0
  ELSE LET i == IF s.idx - 1 < 0 THEN ringSize - 1 ELSE s.idx - 1
       IN  s.values[i]

\* --------------------------------------------------------- float64 values

\* a float64: a finite number, NaN, or an infinity of sign n
FNum(n) == [k |-> "num", n |-> n]

FNaN == [k |-> "nan", n |-> 0]

FInf(sign) == [k |-> "inf", n |-> sign]

\* a - b in float64 arithmetic
FSub(a, b) ==
  IF a.k = "nan" \/ b.k = "nan" THEN FNaN
  ELSE IF a.k = "inf" THEN (IF b.k = "inf" /\ b.n = a.n THEN FNaN ELSE a)
  ELSE IF b.k = "inf" THEN FInf(0 - b.n)
  ELSE FNum(a.n - b.n)

\* a < 0 in float64 arithmetic: false for NaN
FNegative(a) == a.k # "nan" /\ a.n < 0

RECURSIVE GCD(_, _)
GCD(a, b) == IF b = 0 THEN a ELSE GCD(b, a % b)

\* the quotient n / d of two integers, d > 0, in lowest terms
Ratio(n, d) ==
  LET g == GCD(IF n < 0 THEN 0 - n ELSE n, d)
  IN  [k |-> "num", n |-> n \div g, d |-> d \div g]

FZero == Ratio(0, 1)

\* a / secs for a float64 a and a positive number of seconds
FDiv(a, secs) ==
  IF a.k = "num" THEN Ratio(a.n, secs) ELSE [k |-> a.k, n |-> a.n, d |-> 1]

\* r >= 0 in float64 arithmetic: false for NaN
FNonNegative(r) == r.k # "nan" /\ r.n >= 0

\* -------------------------------------------------------------- rate engine

\* time.Time.Before and time.Time.Sub(..).Seconds() on times counted in seconds
Before(t, u) == t < u

SubSeconds(t, u) == t - u

\* newestIdx of rate
newestIdx(s) == IF s.idx - 1 < 0 THEN ringSize - 1 ELSE s.idx - 1

\* i := newestIdx - j; if i < 0 { i += ringSize }
scanIdx(s, j) ==
  IF newestIdx(s) - j < 0 THEN newestIdx(s) - j + ringSize ELSE newestIdx(s) - j

\* the j at which the loop of rate stops: the first j whose sample is before
\* the cutoff (break), or n when the loop runs to its end
scanStop(s, window) ==
  LET cutoff == s.times[newestIdx(s)] - window
      B == { j \in 1..count(s) - 1 : Before(s.times[scanIdx(s, j)], cutoff) }
  IN  IF B = {} THEN count(s)
      ELSE CHOOSE j \in B : \A h \in B : j <= h

\* the slots whose time the loop of rate reads, the one it breaks on included
scanReads(s, window) ==
  LET stop == scanStop(s, window)
      lastJ == IF stop < count(s) THEN stop ELSE count(s) - 1
  IN  [j \in 1..lastJ |-> scanIdx(s, j)]

\* oldestIdx when the loop of rate is left
oldestIdx(s, window) ==
  LET stop == scanStop(s, window)
  IN  IF stop = 1 THEN newestIdx(s) ELSE scanIdx(s, stop - 1)

\* a rate that does not clamp a negative delta
rate_NoClamp(s, window) ==
  IF count(s) < 2 THEN FZero
  ELSE LET o == oldestIdx(s, window)
           elapsed == SubSeconds(s.times[newestIdx(s)], s.times[o])
           delta == FSub(s.values[newestIdx(s)], s.values[o])
       IN  IF elapsed <= 0 THEN FZero
           ELSE FDiv(delta, elapsed)

\* a rate that falls back on the second-newest sample when no older sample
\* lies in the window
rate_PrevBaseline(s, window) ==
  IF count(s) < 2 THEN FZero
  ELSE LET o == IF scanStop(s, window) = 1 THEN scanIdx(s, 1) ELSE oldestIdx(s, window)
           elapsed == SubSeconds(s.times[newestIdx(s)], s.times[o])
           delta == FSub(s.values[newestIdx(s)], s.values[o])
       IN  IF elapsed <= 0 THEN FZero
           ELSE IF FNegative(delta) THEN FZero
           ELSE FDiv(delta, elapsed)

\* metricSeries.rate(window)
rate(s, window) ==
  IF count(s) < 2 THEN FZero
  ELSE LET o == oldestIdx(s, window)
           elapsed == SubSeconds(s.times[newestIdx(s)], s.times[o])
           delta == FSub(s.values[newestIdx(s)], s.values[o])
       IN  IF elapsed <= 0 THEN FZero
           ELSE IF FNegative(delta) THEN FZero
           ELSE FDiv(delta, elapsed)

\* one turn of the loop of rateSlice: the rate between slot prev and slot i
pairRate(s, prev, i) ==
  LET dt == SubSeconds(s.times[i], s.times[prev])
      delta == FSub(s.values[i], s.values[prev])
  IN  IF dt > 0
      THEN FDiv(IF FNegative(delta) THEN FNum(0) ELSE delta, dt)
      ELSE FZero

\* a nil slice, and a slice that was made
NilSlice == [isNil |-> TRUE, elems |-> << >>]

MadeSlice(q) == [isNil |-> FALSE, elems |-> q]

\* a rateSlice that walks the storage from slot 0 whether or not it wrapped
rateSlice_NoUnroll(s, window) ==
  IF count(s) < 2 THEN NilSlice
  ELSE MadeSlice([j \in 1..count(s) - 1 |-> pairRate(s, j - 1, j)])

\* a rateSlice that resamples: a pair that begins before the window counts 0
rateSlice_Windowed(s, window) ==
  IF count(s) < 2 THEN NilSlice
  ELSE LET start  == IF s.full THEN s.idx ELSE 0
           cutoff == s.times[newestIdx(s)] - window
       IN  MadeSlice([j \in 1..count(s) - 1 |->
                        IF Before(s.times[(start + j - 1) % ringSize], cutoff) THEN FZero
                        ELSE pairRate(s, (start + j - 1) % ringSize,
                                      (start + j) % ringSize)])

\* metricSeries.rateSlice(window)
rateSlice(s, window) ==
  IF count(s) < 2 THEN NilSlice
  ELSE LET start == IF s.full THEN s.idx ELSE 0
       IN  MadeSlice([j \in 1..count(s) - 1 |->
                        pairRate(s, (start + j - 1) % ringSize, (start + j) % ringSize)])

\* ------------------------------------------------------------ series key

\* a seriesKey that joins the parts in enumeration order, without sorting
seriesKey_NoSort(name, labels, order) ==
  IF MapLen(labels) = 0 THEN name
  ELSE LET parts == [i \in 1..Len(order) |-> order[i] \o <<"=">> \o labels.kv[order[i]]]
       IN  name \o <<"{">> \o Join(parts, <<",">>) \o <<"}">>

\* seriesKey(name, labels); order is the order `range labels` yields the keys in
seriesKey(name, labels, order) ==
  IF MapLen(labels) = 0 THEN name
  ELSE LET keys  == SortStrings(order)
           parts == [i \in 1..Len(keys) |-> keys[i] \o <<"=">> \o labels.kv[keys[i]]]
       IN  name \o <<"{">> \o Join(parts, <<",">>) \o <<"}">>

\* ------------------------------------------------------------------ store

\* the store's data: series objects live in heap and are referred to by their
\* position in it (the *metricSeries pointers of the map and of the snapshots)
newStore ==
  [ heap |-> << >>, series |-> << >>, order |-> << >>,
    metricNames |-> << >>, nameSet |-> {} ]

\* st.order = append(st.order, key) without the sort that follows it
insertKey_NoSort(order, key) == Append(order, key)

\* st.order = append(st.order, key); sort.Strings(st.order)
insertKey(order, key) == SortStrings(Append(order, key))

\* the name list appended to on every creation, without the nameSet test
insertName_NoDedup(S, name) ==
  [S EXCEPT !.nameSet = @ \cup {name},
            !.metricNames = SortStrings(Append(@, name))]

\* if !st.nameSet[name] { st.nameSet[name] = true; append; sort.Strings }
insertName(S, name) ==
  IF name \in S.nameSet THEN S
  ELSE [S EXCEPT !.nameSet = @ \cup {name},
                 !.metricNames = SortStrings(Append(@, name))]

\* s, ok := st.series[key]: the pointer, or 0 when the key is unseen
lookup(S, key) == IF key \in DOMAIN S.series THEN S.series[key] ELSE 0

\* a creation that enters the new series in a fresh map, losing the others
create_FreshMap(S, key, name, labels, help, mtype) ==
  LET ptr == Len(S.heap) + 1
      S1  == [S EXCEPT
                !.heap   = Append(@, newSeries(key, name, labels, help, mtype)),
                !.series = [k \in {key} |-> ptr],
                !.order  = insertKey(@, key)]
  IN  insertName(S1, name)

\* the body of `if !ok { ... }`: allocate the series, enter it in the map,
\* the key list and the name list
create(S, key, name, labels, help, mtype) ==
  LET ptr == Len(S.heap) + 1
      S1  == [S EXCEPT
                !.heap   = Append(@, newSeries(key, name, labels, help, mtype)),
                !.series = [k \in DOMAIN S.series \cup {key} |->
                              IF k = key THEN ptr ELSE S.series[k]],
                !.order  = insertKey(@, key)]
  IN  insertName(S1, name)

\* an update that refreshes the help text and the type of a known series
update_RefreshMeta(S, name, labels, order, help, mtype, value, now) ==
  LET key == seriesKey(name, labels, order)
      S1  == IF lookup(S, key) = 0 THEN create(S, key, name, labels, help, mtype) ELSE S
      ptr == lookup(S1, key)
  IN  [S1 EXCEPT !.heap[ptr] = push([@ EXCEPT !.help = help, !.mtype = mtype], value, now)]

\* an update that starts the series afresh on every call
update_FreshSeries(S, name, labels, order, help, mtype, value, now) ==
  LET key == seriesKey(name, labels, order)
      S1  == IF lookup(S, key) = 0 THEN create(S, key, name, labels, help, mtype) ELSE S
      ptr == lookup(S1, key)
  IN  [S1 EXCEPT !.heap[ptr] = push(newSeries(key, name, labels, help, mtype), value, now)]

\* store.update as one step (what it does while it holds the write lock);
\* order is the enumeration order of labels inside seriesKey
update(S, name, labels, order, help, mtype, value, now) ==
  LET key == seriesKey(name, labels, order)
      S1  == IF lookup(S, key) = 0 THEN create(S, key, name, labels, help, mtype) ELSE S
      ptr == lookup(S1, key)
  IN  [S1 EXCEPT !.heap[ptr] = push(@, value, now)]

\* store.snapshot(): the series pointers in key-list order
snapshot(S) == [i \in 1..Len(S.order) |-> S.series[S.order[i]]]

\* store.names(): a copy of the name list
names(S) == S.metricNames

\* keep the elements of a sequence that satisfy a test, in order
RECURSIVE SelectPtrs(_, _, _)
SelectPtrs(S, keys, name) ==
  IF keys = << >> THEN << >>
  ELSE LET p == S.series[Head(keys)]
       IN  (IF S.heap[p].name = name THEN <<p>> ELSE << >>)
             \o SelectPtrs(S, Tail(keys), name)

\* store.seriesForName(name)
seriesForName(S, name) == SelectPtrs(S, S.order, name)

\* store.seriesCount(name)
seriesCount(S, name) ==
  Cardinality({i \in 1..Len(S.order) : S.heap[S.series[S.order[i]]].name = name})

\* ------------------------------------------------- exposition-format parser

\* a Go string literal as the sequence of its bytes
Chars(str) == [i \in 1..Len(str) |-> SubSeq(str, i, i)]

\* strings.Split(s, c) for a one-byte separator
RECURSIVE Split(_, _)
Split(s, c) ==
  LET i == Index(s, c)
  IN  IF i < 0 THEN <<s>>
      ELSE <<SliceTo(s, i)>> \o Split(SliceFrom(s, i + 1), c)

\* strings.SplitN(s, c, 2) for a one-byte separator
SplitN2(s, c) ==
  LET i == Index(s, c)
  IN  IF i < 0 THEN <<s>> ELSE <<SliceTo(s, i), SliceFrom(s, i + 1)>>

RECURSIVE TrimLeft(_, _)
TrimLeft(s, cutset) ==
  IF s # << >> /\ Head(s) \in cutset THEN TrimLeft(Tail(s), cutset) ELSE s

RECURSIVE TrimRight(_, _)
TrimRight(s, cutset) ==
  IF s # << >> /\ s[Len(s)] \in cutset
  THEN TrimRight(SubSeq(s, 1, Len(s) - 1), cutset) ELSE s

\* strings.Trim(s, cutset)
Trim(s, cutset) == TrimRight(TrimLeft(s, cutset), cutset)

\* the white space of the alphabet AsciiTable
WhiteSpace == { " " }

\* strings.TrimSpace(s)
TrimSpace(s) == Trim(s, WhiteSpace)

\* the loop body of parseLabels over the pairs left, labels being the map so far
RECURSIVE addPairs(_, _)
addPairs(kv, pairs) ==
  IF pairs = << >> THEN kv
  ELSE LET pair  == TrimSpace(Head(pairs))
           eqIdx == Index(pair, "=")
       IN  IF eqIdx < 0 THEN addPairs(kv, Tail(pairs))
           ELSE LET k == SliceTo(pair, eqIdx)
                    v == Trim(SliceFrom(pair, eqIdx + 1), {"\""})
                IN  addPairs([x \in DOMAIN kv \cup {k} |-> IF x = k THEN v ELSE kv[x]],
                             Tail(pairs))

\* parseLabels(s): the name and the label map of the metric part of a line
parseLabels(s) ==
  LET idx == Index(s, "{")
  IN  IF idx < 0 THEN [name |-> s, labels |-> NilMap]
      ELSE LET name == SliceTo(s, idx)
               rest == SliceFrom(s, idx + 1)
               end  == Index(rest, "}")
           IN  IF end < 0 THEN [name |-> name, labels |-> NilMap]
               ELSE [name |-> name,
                     labels |-> MakeMap(addPairs(<< >>, Split(SliceTo(rest, end), ",")))]

DigitChars == { "0", "1", "2", "3", "4", "5", "6", "7", "8", "9" }

\* the number a string of decimal digits denotes (0 for the empty string)
RECURSIVE Decimal(_)
Decimal(ds) ==
  IF ds = << >> THEN 0
  ELSE Decimal(SubSeq(ds, 1, Len(ds) - 1)) * 10 + (Ord(ds[Len(ds)]) - Ord("0"))

\* the float m * 10^(-e), with m free of trailing zeros so that equal numbers
\* are equal values
RECURSIVE Normal(_, _)
Normal(m, e) ==
  IF m = 0 THEN [kind |-> "num", m |-> 0, e |-> 0]
  ELSE IF m % 10 = 0 THEN Normal(m \div 10, e - 1)
  ELSE [kind |-> "num", m |-> m, e |-> e]

\* math.Inf(1), math.Inf(-1) and math.NaN()
Special(kind) == [kind |-> kind, m |-> 0, e |-> 0]

\* the lower-case form of every ASCII character
LowerOf ==
  [c \in Elems(AsciiTable) |->
     IF Ord(c) >= Ord("A") /\ Ord(c) <= Ord("Z")
     THEN AsciiTable[Ord(c) + (Ord("a") - Ord("A")) - Ord(" ") + 1]
     ELSE c]

\* strings.ToLower on ASCII
ToLower(s) == [i \in 1..Len(s) |-> LowerOf[s[i]]]

\* strconv.ParseFloat(s, 64) on decimal literals (sign, digits, fraction,
\* exponent) and on the names inf, infinity and nan: ok is err == nil, and val
\* is the float.  Hexadecimal literals and digit
\* separators are not among the inputs drawn, and neither are numbers that
\* float64 would round.
ParseFloat(s) ==
  LET signed == s # << >> /\ Head(s) \in {"+", "-"}
      neg    == s # << >> /\ Head(s) = "-"
      body   == IF signed THEN Tail(s) ELSE s
      low    == ToLower(body)
      ePos   == Index(low, "e")
      mant   == IF ePos < 0 THEN body ELSE SliceTo(body, ePos)
      expo   == IF ePos < 0 THEN << >> ELSE SliceFrom(body, ePos + 1)
      eSign  == expo # << >> /\ Head(expo) \in {"+", "-"}
      eDigs  == IF eSign THEN Tail(expo) ELSE expo
      eVal   == IF expo # << >> /\ Head(expo) = "-" THEN 0 - Decimal(eDigs)
                ELSE Decimal(eDigs)
      dot    == Index(mant, ".")
      ip     == IF dot < 0 THEN mant ELSE SliceTo(mant, dot)
      fp     == IF dot < 0 THEN << >> ELSE SliceFrom(mant, dot + 1)
      isNum  == /\ ip \o fp # << >>
                /\ \A i \in 1..Len(ip) : ip[i] \in DigitChars
                /\ \A i \in 1..Len(fp) : fp[i] \in DigitChars
                /\ ePos >= 0 => (eDigs # << >> /\ \A i \in 1..Len(eDigs) : eDigs[i] \in DigitChars)
      mag    == Normal(Decimal(ip \o fp), Len(fp) - eVal)
  IN  IF low \in {Chars("inf"), Chars("infinity")}
      THEN [ok |-> TRUE, val |-> Special(IF neg THEN "-Inf" ELSE "+Inf")]
      ELSE IF low = Chars("nan") /\ ~signed
      THEN [ok |-> TRUE, val |-> Special("NaN")]
      ELSE IF isNum
      THEN [ok |-> TRUE, val |-> [mag EXCEPT !.m = IF neg THEN 0 - @ ELSE @]]
      ELSE [ok |-> FALSE, val |-> Special("NaN")]

\* bufio.MaxScanTokenSize: a line of this many bytes or more does not fit
\* the buffer of a Scanner made by bufio.NewScanner
MaxScanTokenSize == 64 * 1024

\* scanner.Scan() gives up on the line (bufio.ErrTooLong)
tooLong(line) == Len(line) >= MaxScanTokenSize

\* var currentHelp, currentType, currentBaseName string
NoAnnotation ==
  [ currentHelp |-> << >>, currentType |-> << >>, currentBaseName |-> << >> ]

\* the body of `for scanner.Scan()` for one line: p holds currentHelp,
\* currentType and currentBaseName; call is empty, or holds the arguments of
\* the st.update the line leads to
scanLine(p, line) ==
  IF HasPrefix(line, Chars("# HELP "))
  THEN LET parts == SplitN2(SliceFrom(line, 7), " ")
       IN  [ p |-> [p EXCEPT !.currentBaseName = parts[1],
                             !.currentHelp = IF Len(parts) > 1 THEN parts[2] ELSE @],
             call |-> << >> ]
  ELSE IF HasPrefix(line, Chars("# TYPE "))
  THEN LET parts == SplitN2(SliceFrom(line, 7), " ")
       IN  [ p |-> [p EXCEPT !.currentBaseName = parts[1],
                             !.currentType = IF Len(parts) > 1 THEN parts[2] ELSE @],
             call |-> << >> ]
  ELSE IF HasPrefix(line, <<"#">>) \/ line = << >>
  THEN [p |-> p, call |-> << >>]
  ELSE LET spaceIdx == LastIndex(line, " ")
       IN  IF spaceIdx < 0 THEN [p |-> p, call |-> << >>]
           ELSE LET metricPart == SliceTo(line, spaceIdx)
                    valStr     == SliceFrom(line, spaceIdx + 1)
                    f          == ParseFloat(valStr)
                    nl         == parseLabels(metricPart)
                    same       == nl.name = p.currentBaseName
                IN  IF ~f.ok THEN [p |-> p, call |-> << >>]
                    ELSE [ p |-> p,
                           call |-> << [ name   |-> nl.name,
                                         labels |-> nl.labels,
                                         help   |-> IF same THEN p.currentHelp ELSE << >>,
                                         mtype  |-> IF same THEN p.currentType ELSE << >>,
                                         val    |-> f.val ] >> ]

\* ---------------------------------------------------------- unit classifier

\* Patterns are regular expressions made of literal characters, the dot, and
\* the anchors ^ and $.  A pattern with an opening bracket that is never
\* closed does not compile.

\* strings.Contains(s, sub)
Contains(s, sub) ==
  \E i \in 0..Len(s) - Len(sub) : SubSeq(s, i + 1, i + Len(sub)) = sub

\* whether regexp.Compile(expr) returns an error
compileFails(expr) == "[" \in Elems(expr) /\ "]" \notin Elems(expr)

\* whether expr from its k-th character on matches name from offset pos on
RECURSIVE matchHere(_, _, _, _)
matchHere(expr, k, name, pos) ==
  IF k > Len(expr) THEN TRUE
  ELSE IF expr[k] = "^" THEN pos = 0 /\ matchHere(expr, k + 1, name, pos)
  ELSE IF expr[k] = "$" THEN pos = Len(name) /\ matchHere(expr, k + 1, name, pos)
  ELSE IF pos >= Len(name) THEN FALSE
  ELSE IF expr[k] = "." THEN matchHere(expr, k + 1, name, pos + 1)
  ELSE expr[k] = name[pos + 1] /\ matchHere(expr, k + 1, name, pos + 1)

\* regexp.Regexp.MatchString(name) for the compiled expr: a match anywhere
MatchString(expr, name) == \E i \in 0..Len(name) : matchHere(expr, 1, name, i)

\* a *UnitsConfig: nil, or a configuration with its rules
NilConfig == [isNil |-> TRUE, Units |-> << >>]

Config(units) == [isNil |-> FALSE, Units |-> units]

\* a mergeUnits that appends the base rules before the override rules
mergeUnits_BaseFirst(base, override) ==
  IF override.isNil THEN base
  ELSE LET seen == { override.Units[i].Unit : i \in 1..Len(override.Units) }
       IN  Config(SelectSeq(base.Units, LAMBDA u : u.Unit \notin seen)
                    \o override.Units)

\* mergeUnits(base, override)
mergeUnits(base, override) ==
  IF override.isNil THEN base
  ELSE LET seen == { override.Units[i].Unit : i \in 1..Len(override.Units) }
       IN  Config(override.Units
                    \o SelectSeq(base.Units, LAMBDA u : u.Unit \notin seen))

\* a *UnitMatcher: nil, or a matcher with its compiled units
NilMatcher == [isNil |-> TRUE, units |-> << >>]

Matcher(units) == [isNil |-> FALSE, units |-> units]

\* the compiledUnit values of one rule, a pattern that does not compile included
RECURSIVE compileEntry(_, _)
compileEntry(entry, k) ==
  IF k > Len(entry.Matchers) THEN << >>
  ELSE << [unit |-> entry.Unit, suffix |-> entry.Suffix, re |-> entry.Matchers[k]] >>
         \o compileEntry(entry, k + 1)

\* the compiledUnit values of all rules, in configuration order
RECURSIVE compileAll(_, _)
compileAll(units, i) ==
  IF i > Len(units) THEN << >>
  ELSE compileEntry(units[i], 1) \o compileAll(units, i + 1)

\* a compileUnits that leaves out the patterns that do not compile
compileUnits_SkipInvalid(cfg) ==
  LET all == compileAll(cfg.Units, 1)
  IN  [ um |-> Matcher(SelectSeq(all, LAMBDA cu : ~compileFails(cu.re))),
        err |-> FALSE ]

\* compileUnits(cfg): the matcher and whether an error is returned
compileUnits(cfg) ==
  LET all == compileAll(cfg.Units, 1)
  IN  IF \E k \in 1..Len(all) : compileFails(all[k].re)
      THEN [um |-> NilMatcher, err |-> TRUE]
      ELSE [um |-> Matcher(all), err |-> FALSE]

\* a *UnitMatch: nil, or a unit and its suffix
NoMatch == [isNil |-> TRUE, Unit |-> "", Suffix |-> ""]

\* a Match that returns the last compiled unit that matches
Match_LastWins(um, name) ==
  LET M == { k \in 1..Len(um.units) : MatchString(um.units[k].re, name) }
  IN  IF M = {} THEN NoMatch
      ELSE [ isNil |-> FALSE, Unit |-> um.units[MaxOf(M)].unit,
             Suffix |-> um.units[MaxOf(M)].suffix ]

\* UnitMatcher.Match(name)
Match(um, name) ==
  LET M == { k \in 1..Len(um.units) : MatchString(um.units[k].re, name) }
  IN  IF M = {} THEN NoMatch
      ELSE [ isNil |-> FALSE, Unit |-> um.units[MinOf(M)].unit,
             Suffix |-> um.units[MinOf(M)].suffix ]

\* matchUnit(name), with g the process-wide matcher
matchUnit(g, name) == IF ~g.isNil THEN Match(g, name) ELSE NoMatch

\* a file named on the command line: none named, one that cannot be read, one
\* that is no YAML document of the expected shape, or one holding rules
NoFile == [kind |-> "none", Units |-> << >>]

Unreadable == [kind |-> "unreadable", Units |-> << >>]

Unparsable == [kind |-> "unparsable", Units |-> << >>]

UnitsFile(units) == [kind |-> "ok", Units |-> units]

\* initPatterns(userFile), with base the embedded default configuration and g
\* the process-wide matcher: the merged configuration and the result of
\* compiling it when that is reached, the error, and the matcher afterwards
initPatterns(base, userFile, g) ==
  IF userFile.kind \in { "unreadable", "unparsable" }
  THEN [ merged |-> NilConfig, compiled |-> [um |-> NilMatcher, err |-> FALSE],
         err |-> TRUE, g |-> g ]
  ELSE LET user == IF userFile.kind = "none" THEN NilConfig
                   ELSE Config(userFile.Units)
           merged == mergeUnits(base, user)
           c == compileUnits(merged)
       IN  [ merged |-> merged, compiled |-> c, err |-> c.err,
             g |-> IF c.err THEN g ELSE c.um ]

\* -------------------------------------------------------- navigation state

defaultPageSize == 30

\* the page size adjustSeriesScroll uses when seriesPageSize is unset
defaultSeriesPageSize == 10

focusSidebar == 0

focusSeriesTable == 1

\* &uiState{pageSize: ps}
newUIState(ps) ==
  [ allKeys |-> << >>, filtered |-> << >>, selectedIdx |-> 0, scrollOffset |-> 0,
    pageSize |-> ps, filterText |-> << >>, filterMode |-> FALSE,
    regexValid |-> FALSE, focus |-> focusSidebar, seriesIdx |-> 0,
    seriesScroll |-> 0, seriesPageSize |-> 0 ]

\* an adjustScroll that never scrolls down
adjustScroll_NoScrollDown(u) ==
  LET a == IF u.selectedIdx < u.scrollOffset
           THEN [u EXCEPT !.scrollOffset = u.selectedIdx] ELSE u
  IN  IF a.scrollOffset < 0 THEN [a EXCEPT !.scrollOffset = 0] ELSE a

\* uiState.adjustScroll()
adjustScroll(u) ==
  LET ps == IF u.pageSize <= 0 THEN defaultPageSize ELSE u.pageSize
      a  == IF u.selectedIdx < u.scrollOffset
            THEN [u EXCEPT !.scrollOffset = u.selectedIdx] ELSE u
      b  == IF a.selectedIdx >= a.scrollOffset + ps
            THEN [a EXCEPT !.scrollOffset = a.selectedIdx - ps + 1] ELSE a
  IN  IF b.scrollOffset < 0 THEN [b EXCEPT !.scrollOffset = 0] ELSE b

\* uiState.adjustSeriesScroll()
adjustSeriesScroll(u) ==
  LET ps == IF u.seriesPageSize <= 0 THEN defaultSeriesPageSize ELSE u.seriesPageSize
      a  == IF u.seriesIdx < u.seriesScroll
            THEN [u EXCEPT !.seriesScroll = u.seriesIdx] ELSE u
      b  == IF a.seriesIdx >= a.seriesScroll + ps
            THEN [a EXCEPT !.seriesScroll = a.seriesIdx - ps + 1] ELSE a
  IN  IF b.seriesScroll < 0 THEN [b EXCEPT !.seriesScroll = 0] ELSE b

\* a filterKeys that compares without folding the case
filterKeys_CaseSensitive(keys, text) ==
  IF compileFails(text)
  THEN [ valid |-> FALSE, keys |-> SelectSeq(keys, LAMBDA k : Contains(k, text)) ]
  ELSE [ valid |-> TRUE, keys |-> SelectSeq(keys, LAMBDA k : MatchString(text, k)) ]

\* the keys applyFilter keeps for a filter text that is not empty, and whether
\* regexp.Compile("(?i)" + text) succeeded
filterKeys(keys, text) ==
  IF compileFails(text)
  THEN [ valid |-> FALSE,
         keys |-> SelectSeq(keys, LAMBDA k : Contains(ToLower(k), ToLower(text))) ]
  ELSE [ valid |-> TRUE,
         keys |-> SelectSeq(keys, LAMBDA k : MatchString(ToLower(text), ToLower(k))) ]

\* an applyFilter that does not clamp the selection
applyFilter_NoClamp(u) ==
  LET f == IF u.filterText = << >> THEN [valid |-> TRUE, keys |-> u.allKeys]
           ELSE filterKeys(u.allKeys, u.filterText)
  IN  adjustScroll([u EXCEPT !.filtered = f.keys, !.regexValid = f.valid,
                             !.scrollOffset = 0, !.seriesIdx = 0,
                             !.seriesScroll = 0])

\* uiState.applyFilter()
applyFilter(u) ==
  LET f == IF u.filterText = << >> THEN [valid |-> TRUE, keys |-> u.allKeys]
           ELSE filterKeys(u.allKeys, u.filterText)
      a == [u EXCEPT !.filtered = f.keys, !.regexValid = f.valid]
      b == IF a.selectedIdx >= Len(a.filtered)
           THEN [a EXCEPT !.selectedIdx = Len(a.filtered) - 1] ELSE a
      c == IF b.selectedIdx < 0 THEN [b EXCEPT !.selectedIdx = 0] ELSE b
  IN  adjustScroll([c EXCEPT !.scrollOffset = 0, !.seriesIdx = 0,
                             !.seriesScroll = 0])

\* a setKeys that applies the filter again whatever the list
setKeys_AlwaysApply(u, keys) == applyFilter([u EXCEPT !.allKeys = keys])

\* a setKeys that keeps the selection on the name selected before
setKeys_KeepName(u, keys) ==
  IF keys = u.allKeys THEN u
  ELSE LET a   == applyFilter([u EXCEPT !.allKeys = keys])
           was == IF u.selectedIdx >= 0 /\ u.selectedIdx < Len(u.filtered)
                  THEN u.filtered[u.selectedIdx + 1] ELSE << >>
           hit == { i \in 1..Len(a.filtered) : a.filtered[i] = was }
       IN  IF hit = {} THEN a
           ELSE adjustScroll([a EXCEPT !.selectedIdx = MinOf(hit) - 1])

\* uiState.setKeys(keys)
setKeys(u, keys) ==
  IF keys = u.allKeys THEN u ELSE applyFilter([u EXCEPT !.allKeys = keys])

\* uiState.moveUp()
moveUp(u) ==
  IF u.focus = focusSidebar
  THEN IF u.selectedIdx > 0
       THEN [adjustScroll([u EXCEPT !.selectedIdx = u.selectedIdx - 1])
               EXCEPT !.seriesIdx = 0, !.seriesScroll = 0]
       ELSE u
  ELSE IF u.seriesIdx > 0
       THEN adjustSeriesScroll([u EXCEPT !.seriesIdx = u.seriesIdx - 1])
       ELSE u

\* uiState.moveDown()
moveDown(u) ==
  IF u.focus = focusSidebar
  THEN IF u.selectedIdx < Len(u.filtered) - 1
       THEN [adjustScroll([u EXCEPT !.selectedIdx = u.selectedIdx + 1])
               EXCEPT !.seriesIdx = 0, !.seriesScroll = 0]
       ELSE u
  ELSE adjustSeriesScroll([u EXCEPT !.seriesIdx = u.seriesIdx + 1])

\* uiState.clampSeriesIdx(max)
clampSeriesIdx(u, max) ==
  LET a == IF u.seriesIdx >= max THEN [u EXCEPT !.seriesIdx = max - 1] ELSE u
  IN  IF a.seriesIdx < 0 THEN [a EXCEPT !.seriesIdx = 0] ELSE a

\* uiState.selectedKey()
selectedKey(u) ==
  IF u.selectedIdx >= 0 /\ u.selectedIdx < Len(u.filtered)
  THEN u.filtered[u.selectedIdx + 1]
  ELSE << >>

\* uiState.toggleFocus()
toggleFocus(u) ==
  IF u.focus = focusSidebar THEN [u EXCEPT !.focus = focusSeriesTable]
  ELSE [u EXCEPT !.focus = focusSidebar]

\* uiState.addFilterChar(ch)
addFilterChar(u, ch) == applyFilter([u EXCEPT !.filterText = u.filterText \o <<ch>>])

\* a backspaceFilter that applies the filter again even on an empty text
backspaceFilter_AlwaysApply(u) ==
  applyFilter([u EXCEPT !.filterText = SliceTo(u.filterText, Len(u.filterText) - 1)])

\* uiState.backspaceFilter()
backspaceFilter(u) ==
  IF Len(u.filterText) > 0
  THEN applyFilter([u EXCEPT !.filterText = SliceTo(u.filterText, Len(u.filterText) - 1)])
  ELSE u

\* uiState.clearFilter()
clearFilter(u) == applyFilter([u EXCEPT !.filterText = << >>, !.filterMode = FALSE])

\* uiState.startFilter()
startFilter(u) == [u EXCEPT !.filterMode = TRUE]

\* ---------------------------------------------------------------- state

VARIABLES
  rb,       \* ring specification: the series under test
  pushed,   \* ring specification: every value pushed so far, in push order
  seed,     \* ring specification: the first value pushed
  kin,      \* key specification: two identities and their enumeration orders
  kout,     \* key specification: the two keys and the store after both updates
  st,       \* the store: heap, series, order, metricNames, nameSet
  mu,       \* st.mu: the scrape task holding the write lock, or NoTask
  tk,       \* per scrape task: where it is in store.update, and its locals
  rd,       \* the refresh task: where it is in its tick, and its locals
  clock,    \* what time.Now() returns
  ticks,    \* how often the clock has advanced
  budget,   \* how many store.update calls the scrape tasks make in all
  ncalls,   \* how many store.update calls have been made
  issued,   \* the serial number of the last value handed to store.update
  completed, \* per series key: the values of the updates completed, in order
  job,      \* per scrapeTarget call: where it is, its response and its locals
  script,   \* per target: the responses a request to it may get
  sched,    \* the scrape loop: where it is, and its ticker
  cancelled, \* whether ctx has been cancelled
  rs,       \* rate specification: the series under test
  hist,     \* rate specification: every sample pushed after the prefill
  rq,       \* rate specification: the last rate query and what it returned
  globalUnitMatcher, \* the process-wide unit matcher
  ubase,    \* unit specification: the embedded default configuration
  ucfg,     \* unit specification: the configuration the matcher was compiled from
  ucall,    \* unit specification: the last call, its inputs and its results
  ui,       \* the navigation state (uiState)
  rf,       \* navigation specification: where the refresh task is in its tick
  applied,  \* navigation specification: whether applyFilter has run
  rws,      \* the index of the rate window (rateWindowState.idx)
  rwcall    \* rate window specification: the calls under way, the holder of rws.mu

ringVars == <<rb, pushed, seed>>

keyVars == <<kin, kout>>

storeVars == <<st, mu, tk, rd, clock, ticks, budget, ncalls, issued, completed>>

\* what the store specification keeps besides the store and the clock
lockVars == <<mu, tk, rd, ticks, budget, ncalls, issued, completed>>

scrapeVars == <<job, script, sched, cancelled>>

rateVars == <<rs, hist, rq>>

\* the variables of the rate engine, the unit classifier and the navigation state
unitVars == <<globalUnitMatcher, ubase, ucfg, ucall>>

navVars == <<ui, rf, applied, rws, rwcall>>

engineVars == <<rateVars, unitVars, navVars>>

vars == <<ringVars, keyVars, storeVars, scrapeVars, engineVars>>

\* the value every variable of a specification that is not running keeps
RingIdle == rb = 0 /\ pushed = << >> /\ seed = 0

KeyIdle == kin = 0 /\ kout = 0

LockIdle ==
  /\ mu = 0 /\ tk = 0 /\ rd = 0
  /\ ticks = 0 /\ budget = 0 /\ ncalls = 0 /\ issued = 0 /\ completed = 0

StoreIdle == st = 0 /\ clock = 0 /\ LockIdle

ScrapeIdle == job = 0 /\ script = 0 /\ sched = 0 /\ cancelled = FALSE

RateIdle == rs = 0 /\ hist = 0 /\ rq = 0

UnitIdle == globalUnitMatcher = 0 /\ ubase = 0 /\ ucfg = 0 /\ ucall = 0

NavIdle == ui = 0 /\ rf = 0 /\ applied = FALSE /\ rws = 0 /\ rwcall = 0

EngineIdle == RateIdle /\ UnitIdle /\ NavIdle

\* ------------------------------------------- ring buffer, one series alone

\* newTestSeries("test", nil)
RingInit ==
  /\ seed \in 0..MaxSeed
  /\ rb = newSeries(<<"t", "e", "s", "t">>, <<"t", "e", "s", "t">>, NilMap, << >>, << >>)
  /\ pushed = << >>
  /\ KeyIdle /\ StoreIdle /\ ScrapeIdle /\ EngineIdle

\* s.push(v): the i-th push of a run carries the value seed + i and reads a
\* clock that has advanced since the push before
RingPush ==
  /\ Len(pushed) < MaxPushes
  /\ LET v == seed + Len(pushed)
     IN  /\ rb' = push(rb, v, Len(pushed) + 1)
         /\ pushed' = Append(pushed, v)
  /\ UNCHANGED <<seed, keyVars, engineVars, storeVars, scrapeVars>>

RingNext == RingPush

SpecRing == RingInit /\ [][RingNext]_vars

\* ----------------------------------------- rate engine, one series alone

\* the time of the first sample: time.Now() is long after the zero time
RateEpoch == 10

\* samples pushed before the run: none, or a buffer one short of full
RatePrefills == { 0, ringSize - 1 }

\* the values pushed during the run: a counter going up and down, and NaN
RateValues == { FNum(1), FNum(3), FNaN }

\* seconds between one pushAt and the next: pushAt takes any time
RateSteps == { -1, 0, 1, 3 }

\* the windows asked for: rateWindowSteps[0], [1] and [6], in seconds
RateWindows == { 1, 2, 60 }

\* the k-th sample of the prefill
PrefillSample(k) == [v |-> FNum(k), t |-> RateEpoch + k]

\* the series after pushAt(PrefillSample(k).v, PrefillSample(k).t) for k = 1..n
RatePrefilled(n) ==
  [ newSeries(<<"c">>, <<"c">>, NilMap, << >>, <<"c", "o", "u", "n", "t", "e", "r">>)
      EXCEPT !.values = [i \in 0..ringSize - 1 |->
                           IF i < n THEN PrefillSample(i + 1).v ELSE FNum(0)],
             !.times = [i \in 0..ringSize - 1 |->
                           IF i < n THEN PrefillSample(i + 1).t ELSE ZeroTime],
             !.idx = n % ringSize,
             !.full = (n >= ringSize) ]

NoQuery ==
  [ asked |-> FALSE, window |-> 0, rate |-> FZero, oldest |-> 0,
    reads |-> << >>, rates |-> NilSlice ]

RateInit ==
  /\ \E n \in RatePrefills :
       /\ rs = RatePrefilled(n)
       /\ hist = [k \in 1..n |-> PrefillSample(k)]
       /\ rq = [fresh |-> 0, q |-> NoQuery]
  /\ RingIdle /\ KeyIdle /\ StoreIdle /\ ScrapeIdle /\ UnitIdle /\ NavIdle

\* s.pushAt(v, t)
RatePushAt ==
  /\ rq.fresh < MaxRatePushes
  /\ \E v \in RateValues, step \in RateSteps :
       LET t == (IF hist = << >> THEN RateEpoch ELSE hist[Len(hist)].t) + step
       IN  /\ rs' = pushAt(rs, v, t)
           /\ hist' = Append(hist, [v |-> v, t |-> t])
  /\ rq' = [fresh |-> rq.fresh + 1, q |-> NoQuery]
  /\ UNCHANGED <<ringVars, keyVars, storeVars, scrapeVars, unitVars, navVars>>

\* s.rate(window) and s.rateSlice(window), as the refresh task calls them
RateQuery ==
  /\ \E w \in RateWindows :
       rq' = [rq EXCEPT !.q =
                [ asked |-> TRUE, window |-> w, rate |-> rate(rs, w),
                  oldest |-> IF count(rs) < 2 THEN 0 ELSE oldestIdx(rs, w),
                  reads |-> IF count(rs) < 2 THEN << >> ELSE scanReads(rs, w),
                  rates |-> rateSlice(rs, w) ]]
  /\ UNCHANGED <<rs, hist, ringVars, keyVars, storeVars, scrapeVars, unitVars,
                 navVars>>

RateNext == RatePushAt \/ RateQuery

SpecRate == RateInit /\ [][RateNext]_vars

\* ------------------------------------------------------- unit classifier

\* rules of the embedded default configuration
BytesRule ==
  [Unit |-> "bytes", Suffix |-> " [bytes]", Matchers |-> << Chars("_bytes$") >>]

TimestampRule ==
  [Unit |-> "timestamp", Suffix |-> " [ts]", Matchers |-> << Chars("_time_seconds$") >>]

DurationRule ==
  [Unit |-> "duration", Suffix |-> " [duration]", Matchers |-> << Chars("_seconds$") >>]

\* rules of the files named on the command line
UserRules ==
  { [Unit |-> "bytes", Suffix |-> " [B]",
     Matchers |-> << Chars("_bytes$"), Chars("_octets$") >>],
    [Unit |-> "duration", Suffix |-> " [s]", Matchers |-> << Chars("_seconds$") >>],
    [Unit |-> "custom", Suffix |-> " [custom]", Matchers |-> << Chars("^myapp_") >>],
    [Unit |-> "bad", Suffix |-> "", Matchers |-> << Chars("[invalid") >>] }

\* the embedded default configuration: it compiles, and its timestamp rule
\* comes before its duration rule
DefaultConfigs == { Config(<< BytesRule, TimestampRule, DurationRule >>) }

\* the files the command line may name
UserFiles ==
  { NoFile, Unreadable, Unparsable } \cup
  UNION { { UnitsFile(q) : q \in [1..k -> UserRules] } : k \in 0..MaxRules }

\* the metric names looked up
UnitNames ==
  { Chars("gc_time_seconds"), Chars("up_seconds"), Chars("a_bytes"),
    Chars("myapp_octets"), Chars("other") }

NoCall ==
  [ op |-> "none", file |-> NoFile, before |-> NilMatcher,
    out |-> initPatterns(NilConfig, Unreadable, NilMatcher),
    name |-> << >>, match |-> NoMatch ]

UnitInit ==
  /\ ubase \in DefaultConfigs
  /\ globalUnitMatcher = NilMatcher
  /\ ucfg = NilConfig
  /\ ucall = NoCall
  /\ RingIdle /\ KeyIdle /\ StoreIdle /\ ScrapeIdle /\ RateIdle /\ NavIdle

\* initPatterns(userFile)
InitPatterns ==
  /\ \E f \in UserFiles :
       LET out == initPatterns(ubase, f, globalUnitMatcher)
       IN  /\ globalUnitMatcher' = out.g
           /\ ucfg' = IF out.err THEN ucfg ELSE out.merged
           /\ ucall' = [NoCall EXCEPT !.op = "init", !.file = f,
                                      !.before = globalUnitMatcher, !.out = out]
  /\ UNCHANGED <<ubase, ringVars, keyVars, storeVars, scrapeVars, rateVars, navVars>>

\* matchUnit(name)
MatchUnit ==
  /\ \E name \in UnitNames :
       ucall' = [NoCall EXCEPT !.op = "match", !.name = name,
                               !.match = matchUnit(globalUnitMatcher, name)]
  /\ UNCHANGED <<globalUnitMatcher, ubase, ucfg, ringVars, keyVars, storeVars,
                 scrapeVars, rateVars, navVars>>

UnitNext == InitPatterns \/ MatchUnit

SpecUnits == UnitInit /\ [][UnitNext]_vars

\* ------------------------------------------------------- navigation state

\* more names than a page of the name list holds
MaxNames == defaultPageSize + 2

DigitStr == << "0", "1", "2", "3", "4", "5", "6", "7", "8", "9" >>

\* fmt.Sprintf("m%02d", i)
NameAt(i) == << "m", DigitStr[(i \div 10) + 1], DigitStr[(i % 10) + 1] >>

\* the name lists store.names() returns over a run: a few names, then many
ShortKeys == << Chars("Mem"), Chars("cpu"), Chars("x[M") >>

LongKeys == [i \in 1..MaxNames |-> NameAt(i - 1)]

KeyLists == { ShortKeys, LongKeys }

\* len(st.seriesForName(name)) for the names of the lists above
SeriesKnown(name) ==
  IF name = << >> THEN 0 ELSE IF name \in Elems(ShortKeys) THEN 2 ELSE 1

\* the printable keys typed into the filter
FilterChars == { "M", ".", "[" }

\* pageSize of the uiState: unset as in run, or set as in the tests
PageSizes == { 0, 3 }

\* the refresh task between two ticks
RefreshIdle == [pc |-> "idle", max |-> 0, names |-> << >>]

\* ui := &uiState{}
NavInit ==
  /\ \E ps \in PageSizes : ui = newUIState(ps)
  /\ rf = RefreshIdle
  /\ applied = FALSE
  /\ rws = 0
  /\ rwcall = 0
  /\ RingIdle /\ KeyIdle /\ StoreIdle /\ ScrapeIdle /\ RateIdle /\ UnitIdle

NavOthers == <<ringVars, keyVars, storeVars, scrapeVars, rateVars, unitVars, rws, rwcall>>

\* refresh tick: names := st.names(); ui.setKeys(names)
RfSetKeys ==
  /\ rf.pc = "idle"
  /\ \E keys \in KeyLists :
       /\ ui' = setKeys(ui, keys)
       /\ applied' = (applied \/ keys # ui.allKeys)
       /\ rf' = [rf EXCEPT !.pc = "snapshot", !.names = keys]
  /\ UNCHANGED NavOthers

\* refresh tick: ui.snapshot(), selName, seriesList := st.seriesForName(selName)
RfSnapshot ==
  /\ rf.pc = "snapshot"
  /\ rf' = [rf EXCEPT !.pc = "clamp", !.max = SeriesKnown(selectedKey(ui))]
  /\ UNCHANGED <<ui, applied, NavOthers>>

\* refresh tick: ui.clampSeriesIdx(len(seriesList))
RfClamp ==
  /\ rf.pc = "clamp"
  /\ ui' = clampSeriesIdx(ui, rf.max)
  /\ rf' = RefreshIdle
  /\ UNCHANGED <<applied, NavOthers>>

\* a printable key in filter mode: ui.addFilterChar(ch)
AddFilterChar ==
  /\ Len(ui.filterText) < MaxFilterLen
  /\ \E ch \in FilterChars : ui' = addFilterChar(ui, ch)
  /\ applied' = TRUE
  /\ UNCHANGED <<rf, NavOthers>>

BackspaceFilter ==
  /\ ui' = backspaceFilter(ui)
  /\ applied' = (applied \/ Len(ui.filterText) > 0)
  /\ UNCHANGED <<rf, NavOthers>>

ClearFilter ==
  /\ ui' = clearFilter(ui)
  /\ applied' = TRUE
  /\ UNCHANGED <<rf, NavOthers>>

MoveUp ==
  /\ ui' = moveUp(ui)
  /\ UNCHANGED <<rf, applied, NavOthers>>

\* ui.moveDown(): in the series table, as long as the selection is below
\* MaxSeriesIdx
MoveDown ==
  /\ ui.focus = focusSeriesTable => ui.seriesIdx < MaxSeriesIdx
  /\ ui' = moveDown(ui)
  /\ UNCHANGED <<rf, applied, NavOthers>>

ToggleFocus ==
  /\ ui' = toggleFocus(ui)
  /\ UNCHANGED <<rf, applied, NavOthers>>

NavNext ==
  \/ RfSetKeys \/ RfSnapshot \/ RfClamp
  \/ AddFilterChar \/ BackspaceFilter \/ ClearFilter
  \/ MoveUp \/ MoveDown \/ ToggleFocus

SpecNav == NavInit /\ [][NavNext]_vars

\* ------------------------------------------------- the keyboard subscriber

\* var rateWindowSteps, in seconds
rateWindowSteps == << 1, 2, 5, 10, 15, 30, 60 >>

\* a rateWindowUp that does not stop at the last step
rateWindowUp_NoStop(idx) == idx + 1

\* rateWindowUp(), on rws.idx (positions counted from 0)
rateWindowUp(idx) == IF idx < Len(rateWindowSteps) - 1 THEN idx + 1 ELSE idx

\* rateWindowDown(), on rws.idx
rateWindowDown(idx) == IF idx > 0 THEN idx - 1 ELSE idx

\* keys with a code of 0x20 to 0x7e
PrintableKeys == { "q", "Q", "j", "k", "/", "[", "]", "+", "-", "M" }

\* keyboard.KeyEsc, KeyBackspace, KeyEnter, KeyTab, KeyArrowUp, KeyArrowDown
SpecialKeys == { "Esc", "Backspace", "Enter", "Tab", "Up", "Down" }

Keys == PrintableKeys \cup SpecialKeys

\* what the subscriber works on: the uiState, ctx (cancelled or not), rws.idx
Session(u, c, w) == [ui |-> u, cancelled |-> c, rws |-> w]

\* a subscriber that does not look at filterMode
keyboardSubscriber_NoFilterMode(S, k) ==
  IF k = "Esc"
  THEN IF S.ui.filterText # << >> THEN [S EXCEPT !.ui = clearFilter(S.ui)]
       ELSE [S EXCEPT !.cancelled = TRUE]
  ELSE IF k \in {"q", "Q"} THEN [S EXCEPT !.cancelled = TRUE]
  ELSE IF k \in {"Up", "k"} THEN [S EXCEPT !.ui = moveUp(S.ui)]
  ELSE IF k \in {"Down", "j"} THEN [S EXCEPT !.ui = moveDown(S.ui)]
  ELSE IF k = "Tab" THEN [S EXCEPT !.ui = toggleFocus(S.ui)]
  ELSE IF k = "/" THEN [S EXCEPT !.ui = startFilter(S.ui)]
  ELSE IF k \in {"]", "+"} THEN [S EXCEPT !.rws = rateWindowUp(S.rws)]
  ELSE IF k \in {"[", "-"} THEN [S EXCEPT !.rws = rateWindowDown(S.rws)]
  ELSE S

\* the function given to termdash.KeyboardSubscriber, for the key k
keyboardSubscriber(S, k) ==
  IF S.ui.filterMode
  THEN IF k = "Esc" THEN [S EXCEPT !.ui = clearFilter(S.ui)]
       ELSE IF k = "Backspace" THEN [S EXCEPT !.ui = backspaceFilter(S.ui)]
       ELSE IF k = "Enter" THEN [S EXCEPT !.ui.filterMode = FALSE]
       ELSE IF k \in PrintableKeys THEN [S EXCEPT !.ui = addFilterChar(S.ui, k)]
       ELSE S
  ELSE IF k = "Esc"
  THEN IF S.ui.filterText # << >> THEN [S EXCEPT !.ui = clearFilter(S.ui)]
       ELSE [S EXCEPT !.cancelled = TRUE]
  ELSE IF k \in {"q", "Q"} THEN [S EXCEPT !.cancelled = TRUE]
  ELSE IF k \in {"Up", "k"} THEN [S EXCEPT !.ui = moveUp(S.ui)]
  ELSE IF k \in {"Down", "j"} THEN [S EXCEPT !.ui = moveDown(S.ui)]
  ELSE IF k = "Tab" THEN [S EXCEPT !.ui = toggleFocus(S.ui)]
  ELSE IF k = "/" THEN [S EXCEPT !.ui = startFilter(S.ui)]
  ELSE IF k \in {"]", "+"} THEN [S EXCEPT !.rws = rateWindowUp(S.rws)]
  ELSE IF k \in {"[", "-"} THEN [S EXCEPT !.rws = rateWindowDown(S.rws)]
  ELSE S

\* the printable keys typed while the filter is edited
TypedKeys == { "q", "j", "[" }

\* var rws = rateWindowState{idx: 2}
defaultRateWindowIdx == 2

\* the session once the first refresh tick has set the names
KeysInit ==
  /\ ui = setKeys(newUIState(0), ShortKeys)
  /\ rf = RefreshIdle
  /\ applied = TRUE
  /\ rws = defaultRateWindowIdx
  /\ rwcall = 0
  /\ job = 0 /\ script = 0 /\ sched = 0
  /\ cancelled = FALSE
  /\ RingIdle /\ KeyIdle /\ StoreIdle /\ RateIdle /\ UnitIdle

\* a key arrives while the session runs: the subscriber is called with it
KeyPress ==
  /\ ~cancelled
  /\ \E k \in Keys :
       /\ (ui.filterMode /\ k \in PrintableKeys) =>
            (k \in TypedKeys /\ Len(ui.filterText) < MaxFilterLen)
       /\ (~ui.filterMode /\ k \in {"Down", "j"} /\ ui.focus = focusSeriesTable) =>
            ui.seriesIdx < MaxSeriesIdx
       /\ LET R == keyboardSubscriber(Session(ui, cancelled, rws), k)
          IN  /\ ui' = R.ui
              /\ cancelled' = R.cancelled
              /\ rws' = R.rws
  /\ UNCHANGED <<rf, applied, rwcall, job, script, sched, ringVars, keyVars,
                 storeVars, rateVars, unitVars>>

SpecKeys == KeysInit /\ [][KeyPress]_vars

\* ------------------------------------------------- one refresh tick and keys

\* uiState.snapshot()
uiSnapshot(u) ==
  [ filtered |-> u.filtered, selIdx |-> u.selectedIdx, scrollOff |-> u.scrollOffset,
    filter |-> u.filterText, filterMode |-> u.filterMode ]

\* uiState.seriesSnapshot()
seriesSnapshot(u) ==
  [ seriesIdx |-> u.seriesIdx, seriesScroll |-> u.seriesScroll, focus |-> u.focus,
    regexOK |-> u.regexValid ]

\* a result not read yet
NoView == [none |-> TRUE]

\* the refresh task waiting for its ticker
TickIdle ==
  [ pc |-> "idle", max |-> 0, list |-> NoView, ser |-> NoView, selName |-> << >>,
    seen |-> {}, keys |-> 0 ]

\* ------------------------------------------ navigation: a growing name list

\* the few names and one more, discovered later, that sorts between them
GrownKeys == << Chars("Mem"), Chars("abc"), Chars("cpu"), Chars("x[M") >>

\* the name lists store.names() returns in this specification
GrowLists == { ShortKeys, GrownKeys }

\* ui := &uiState{}
GrowInit ==
  /\ \E ps \in PageSizes : ui = newUIState(ps)
  /\ rf = RefreshIdle
  /\ applied = FALSE
  /\ rws = 0
  /\ rwcall = 0
  /\ RingIdle /\ KeyIdle /\ StoreIdle /\ ScrapeIdle /\ RateIdle /\ UnitIdle

\* refresh tick: names := st.names(); ui.setKeys(names); the tick keeps the
\* list and the name that were current before the call
GrSetKeys ==
  /\ rf.pc = "idle"
  /\ \E keys \in GrowLists :
       /\ ui' = setKeys(ui, keys)
       /\ applied' = (applied \/ keys # ui.allKeys)
       /\ rf' = [ pc |-> "snapshot", max |-> 0, names |-> keys,
                  had |-> ui.allKeys, was |-> selectedKey(ui) ]
  /\ UNCHANGED NavOthers

GrowNext ==
  \/ GrSetKeys \/ RfSnapshot \/ RfClamp
  \/ AddFilterChar \/ BackspaceFilter \/ MoveUp \/ MoveDown

SpecGrow == GrowInit /\ [][GrowNext]_vars

\* ------------------------------------- rate window: concurrent callers

\* time.Second, with durations counted in milliseconds
Second == 1000

\* rateWindowSet(d): the position of the first step s with s >= d, else the last
rateWindowSet(d) ==
  LET hit == { i \in 1..Len(rateWindowSteps) : rateWindowSteps[i] * Second >= d }
  IN  IF hit = {} THEN Len(rateWindowSteps) - 1 ELSE MinOf(hit) - 1

\* rws.mu when no goroutine holds it
NoCaller == "none"

\* the goroutines that call the three functions
WinCallers == { "c1", "c2" }

\* the durations rateWindowSet is called with: negative, zero, below the
\* first step, on a step, between two steps, on the last step, beyond it
WinDurations == { -1000, 0, 1, 1000, 1500, 5000, 30001, 60000, 100000 }

\* the calls: rateWindowUp(), rateWindowDown(), rateWindowSet(d)
WinOps ==
  { [op |-> "up", d |-> 0], [op |-> "down", d |-> 0] }
    \cup { [op |-> "set", d |-> d] : d \in WinDurations }

WinIdle == [pc |-> "idle", op |-> "none", d |-> 0, from |-> 0]

\* var rws = rateWindowState{idx: 2}, nobody holding rws.mu
WinInit ==
  /\ rws = defaultRateWindowIdx
  /\ rwcall = [mu |-> NoCaller, c |-> [t \in WinCallers |-> WinIdle]]
  /\ ui = 0 /\ rf = 0 /\ applied = FALSE
  /\ RingIdle /\ KeyIdle /\ StoreIdle /\ ScrapeIdle /\ RateIdle /\ UnitIdle

WinOthers ==
  <<ui, rf, applied, ringVars, keyVars, storeVars, scrapeVars, rateVars, unitVars>>

\* a goroutine calls one of the three functions
WinCall(t) ==
  /\ rwcall.c[t].pc = "idle"
  /\ \E o \in WinOps :
       rwcall' = [rwcall EXCEPT !.c[t] = [WinIdle EXCEPT !.pc = "lock", !.op = o.op,
                                                         !.d = o.d]]
  /\ UNCHANGED <<rws, WinOthers>>

\* rws.mu.Lock()
WinLock(t) ==
  /\ rwcall.c[t].pc = "lock"
  /\ rwcall.mu = NoCaller
  /\ rwcall' = [rwcall EXCEPT !.mu = t, !.c[t].pc = "body"]
  /\ UNCHANGED <<rws, WinOthers>>

\* the body of the function, run with the mutex held
WinBody(t) ==
  /\ rwcall.c[t].pc = "body"
  /\ rws' = IF rwcall.c[t].op = "up" THEN rateWindowUp(rws)
            ELSE IF rwcall.c[t].op = "down" THEN rateWindowDown(rws)
            ELSE rateWindowSet(rwcall.c[t].d)
  /\ rwcall' = [rwcall EXCEPT !.c[t].pc = "unlock", !.c[t].from = rws]
  /\ UNCHANGED WinOthers

\* the deferred rws.mu.Unlock()
WinUnlock(t) ==
  /\ rwcall.c[t].pc = "unlock"
  /\ rwcall' = [rwcall EXCEPT !.mu = NoCaller, !.c[t] = WinIdle]
  /\ UNCHANGED <<rws, WinOthers>>

WinNext ==
  \E t \in WinCallers : WinCall(t) \/ WinLock(t) \/ WinBody(t) \/ WinUnlock(t)

SpecWindow == WinInit /\ [][WinNext]_vars

\* the keys pressed in this specification
TickKeys == { "Tab", "Down", "/", "[", "Enter" }

TickInit ==
  /\ ui = setKeys(newUIState(0), ShortKeys)
  /\ rf = TickIdle
  /\ applied = TRUE
  /\ rws = defaultRateWindowIdx
  /\ rwcall = 0
  /\ job = 0 /\ script = 0 /\ sched = 0
  /\ cancelled = FALSE
  /\ RingIdle /\ KeyIdle /\ StoreIdle /\ RateIdle /\ UnitIdle

TickOthers ==
  <<applied, rwcall, job, script, sched, ringVars, keyVars, storeVars, rateVars,
    unitVars>>

\* case <-ticker.C: names := st.names(); ui.setKeys(names)
TkSetKeys ==
  /\ rf.pc = "idle"
  /\ ui' = setKeys(ui, ShortKeys)
  /\ rf' = [TickIdle EXCEPT !.pc = "snapshot"]
  /\ UNCHANGED <<rws, cancelled, TickOthers>>

\* filtered, selIdx, scrollOff, filter, filterMode := ui.snapshot()
TkSnapshot ==
  /\ rf.pc = "snapshot"
  /\ rf' = [rf EXCEPT !.pc = "series", !.list = uiSnapshot(ui), !.seen = {ui}]
  /\ UNCHANGED <<ui, rws, cancelled, TickOthers>>

\* seriesIdx, seriesScroll, focus, regexOK := ui.seriesSnapshot();
\* renderMetricList(...); selName; seriesList := st.seriesForName(selName)
TkSeriesSnapshot ==
  /\ rf.pc = "series"
  /\ LET selName == IF rf.list.selIdx >= 0 /\ rf.list.selIdx < Len(rf.list.filtered)
                    THEN rf.list.filtered[rf.list.selIdx + 1] ELSE << >>
     IN  rf' = [rf EXCEPT !.pc = "clamp", !.ser = seriesSnapshot(ui),
                          !.selName = selName, !.max = SeriesKnown(selName)]
  /\ UNCHANGED <<ui, rws, cancelled, TickOthers>>

\* ui.clampSeriesIdx(len(seriesList))
TkClamp ==
  /\ rf.pc = "clamp"
  /\ ui' = clampSeriesIdx(ui, rf.max)
  /\ rf' = [rf EXCEPT !.pc = "series2", !.seen = @ \cup {ui'}]
  /\ UNCHANGED <<rws, cancelled, TickOthers>>

\* seriesIdx, seriesScroll, focus, _ = ui.seriesSnapshot();
\* renderSeriesTable(...)
TkSeriesSnapshot2 ==
  /\ rf.pc = "series2"
  /\ rf' = [rf EXCEPT !.pc = "table", !.ser = seriesSnapshot(ui)]
  /\ UNCHANGED <<ui, rws, cancelled, TickOthers>>

\* the rest of the tick: the chart is drawn, the loop waits again
TkDone ==
  /\ rf.pc = "table"
  /\ rf' = TickIdle
  /\ UNCHANGED <<ui, rws, cancelled, TickOthers>>

\* a key arrives and the subscriber handles it, between two steps of the
\* refresh task or while that task waits
TkKey ==
  /\ rf.pc # "idle" => rf.keys < MaxTickKeys
  /\ \E k \in TickKeys :
       /\ (ui.filterMode /\ k \in PrintableKeys) => Len(ui.filterText) < MaxFilterLen
       /\ (~ui.filterMode /\ k = "Down" /\ ui.focus = focusSeriesTable) =>
            ui.seriesIdx < MaxSeriesIdx
       /\ LET R == keyboardSubscriber(Session(ui, cancelled, rws), k)
          IN  /\ ui' = R.ui
              /\ cancelled' = R.cancelled
              /\ rws' = R.rws
  /\ rf' = IF rf.pc = "idle" THEN rf
           ELSE [rf EXCEPT !.keys = @ + 1,
                           !.seen = IF rf.pc = "snapshot" THEN @ ELSE @ \cup {ui'}]
  /\ UNCHANGED TickOthers

TickNext ==
  \/ TkSetKeys \/ TkSnapshot \/ TkSeriesSnapshot \/ TkClamp
  \/ TkSeriesSnapshot2 \/ TkDone \/ TkKey

SpecTick == TickInit /\ [][TickNext]_vars

\* ------------------------------------------------- the series table

\* the names of the series table specification: one with more series than a
\* page of the table holds, one with a single series
TableKeys == << Chars("big"), Chars("one") >>

\* len(st.seriesForName(name)) for these names
TableSeries(name) ==
  IF name = Chars("big") THEN defaultSeriesPageSize + 2
  ELSE IF name = << >> THEN 0 ELSE 1

\* ui := &uiState{}
TableInit ==
  /\ ui = newUIState(0)
  /\ rf = RefreshIdle
  /\ applied = FALSE
  /\ rws = 0
  /\ rwcall = 0
  /\ RingIdle /\ KeyIdle /\ StoreIdle /\ ScrapeIdle /\ RateIdle /\ UnitIdle

\* refresh tick: names := st.names(); ui.setKeys(names)
TbSetKeys ==
  /\ rf.pc = "idle"
  /\ ui' = setKeys(ui, TableKeys)
  /\ applied' = (applied \/ TableKeys # ui.allKeys)
  /\ rf' = [rf EXCEPT !.pc = "snapshot", !.names = TableKeys]
  /\ UNCHANGED NavOthers

\* refresh tick: ui.snapshot(), selName, seriesList := st.seriesForName(selName)
TbSnapshot ==
  /\ rf.pc = "snapshot"
  /\ rf' = [rf EXCEPT !.pc = "clamp", !.max = TableSeries(selectedKey(ui))]
  /\ UNCHANGED <<ui, applied, NavOthers>>

\* refresh tick: ui.clampSeriesIdx(len(seriesList))
TbClamp ==
  /\ rf.pc = "clamp"
  /\ ui' = clampSeriesIdx(ui, rf.max)
  /\ rf' = RefreshIdle
  /\ UNCHANGED <<applied, NavOthers>>

TbMoveUp ==
  /\ ui' = moveUp(ui)
  /\ UNCHANGED <<rf, applied, NavOthers>>

\* ui.moveDown(): in the series table, for at most MaxSeriesMoves rows
TbMoveDown ==
  /\ ui.focus = focusSeriesTable => ui.seriesIdx < MaxSeriesMoves
  /\ ui' = moveDown(ui)
  /\ UNCHANGED <<rf, applied, NavOthers>>

TbToggleFocus ==
  /\ ui' = toggleFocus(ui)
  /\ UNCHANGED <<rf, applied, NavOthers>>

TableNext ==
  \/ TbSetKeys \/ TbSnapshot \/ TbClamp
  \/ TbMoveUp \/ TbMoveDown \/ TbToggleFocus

SpecSeries == TableInit /\ [][TableNext]_vars

\* ------------------------------------------------- series key, as a function

LabelKeys == { <<"a">>, <<"b">> }

LabelValues == { <<"1">>, <<"2">>, <<"1", ",", "b", "=", "2">> }

MetricNames == { <<"m">>, <<"n">> }

\* nil, the empty map, and every map from some label keys to label values
LabelMaps ==
  {NilMap} \cup
  UNION { { MakeMap(f) : f \in [D -> LabelValues] } : D \in SUBSET LabelKeys }

Identities == [name : MetricNames, labels : LabelMaps]

KeyInit ==
  /\ \E a \in Identities, b \in Identities :
       \E ea \in RangeOrders(a.labels), eb \in RangeOrders(b.labels) :
         kin = [a |-> a, b |-> b, ea |-> ea, eb |-> eb]
  /\ kout = [done |-> FALSE, ka |-> << >>, kb |-> << >>, st |-> newStore]
  /\ RingIdle /\ StoreIdle /\ ScrapeIdle /\ EngineIdle

\* st.update(a...) then st.update(b...) on a new store
KeyCompute ==
  /\ kout.done = FALSE
  /\ kout' = [ done |-> TRUE,
               ka |-> seriesKey(kin.a.name, kin.a.labels, kin.ea),
               kb |-> seriesKey(kin.b.name, kin.b.labels, kin.eb),
               st |-> update(update(newStore, kin.a.name, kin.a.labels, kin.ea,
                                    << >>, << >>, 1, 1),
                             kin.b.name, kin.b.labels, kin.eb, << >>, << >>, 2, 2) ]
  /\ UNCHANGED <<kin, ringVars, storeVars, scrapeVars, engineVars>>

KeyNext == KeyCompute

SpecKey == KeyInit /\ [][KeyNext]_vars

\* ----------------------------- store: scrape tasks and the refresh task

\* the goroutines running scrapeTarget at the same time
Scrapers == { "s1", "s2" }

NoTask == "none"

\* the identities the scrape tasks observe: two families, one of them with a
\* labelled and an unlabelled series; their keys are b, a{x=1} and a
StoreIds ==
  { [name |-> <<"b">>, labels |-> NilMap],
    [name |-> <<"a">>, labels |-> MakeMap([k \in {<<"x">>} |-> <<"1">>])],
    [name |-> <<"a">>, labels |-> NilMap] }

\* the series that has a history when the specification starts
HotId == [name |-> <<"a">>, labels |-> NilMap]

\* how many updates of HotId have completed before the specification starts:
\* none, one short of filling the ring, or one past it
PrefillChoices == { 0, ringSize - 1, ringSize + 1 }

\* the store S after the sequential updates of HotId numbered lo..hi, the
\* i-th with value i at time i.  The range is halved and the first half is
\* compared with itself so that it is evaluated before the second half is
\* begun: a plain left fold of 120 updates nests too deep to evaluate.
RECURSIVE UpdatedBy(_, _, _)
UpdatedBy(S, lo, hi) ==
  IF lo > hi THEN S
  ELSE IF lo = hi
  THEN update(S, HotId.name, HotId.labels, << >>, << >>, << >>, lo, lo)
  ELSE LET mid  == (lo + hi) \div 2
           half == UpdatedBy(S, lo, mid)
       IN  IF half = half THEN UpdatedBy(half, mid + 1, hi)
           ELSE UpdatedBy(half, mid + 1, hi)

\* the store after n sequential updates of HotId
Prefilled(n) == UpdatedBy(newStore, 1, n)

IdleTask ==
  [ pc |-> "idle", name |-> << >>, labels |-> NilMap, value |-> 0,
    key |-> << >>, ptr |-> 0, now |-> 0, before |-> 0 ]

IdleRefresh ==
  [ pc |-> "tick", sel |-> << >>, list |-> << >>, i |-> 0,
    obsLast |-> 0, obsCount |-> 0, whole |-> TRUE ]

StoreStart ==
  /\ \E n \in PrefillChoices :
       /\ st = Prefilled(n)
       /\ clock = n + 1
       /\ issued = n
       /\ completed = IF n = 0 THEN << >>
                      ELSE [k \in {HotId.name} |-> [i \in 1..n |-> i]]
  /\ mu = NoTask
  /\ tk = [t \in Scrapers |-> IdleTask]
  /\ rd = IdleRefresh
  /\ ticks = 0
  /\ ncalls = 0
  /\ RingIdle /\ KeyIdle /\ ScrapeIdle /\ EngineIdle

\* the scrape tasks alone, with a clock that advances
StoreInit == StoreStart /\ budget = MaxUpdates

\* the scrape tasks and the refresh task
ReadInit == StoreStart /\ budget = MaxReadUpdates

\* a write lock that excludes nobody
CanLock_NoExclusion(t) == TRUE

\* st.mu.Lock() returns only when no other task holds the lock
CanLock(t) == mu = NoTask

\* st.mu.RLock() returns only when no task holds the write lock
CanRLock == mu = NoTask

\* a scrape task calls st.update(name, labels, help, mtype, value); the value
\* is the call's serial number, so that every sample can be told from the others
UpdCall(t) ==
  /\ tk[t].pc = "idle"
  /\ ncalls < budget
  /\ \E id \in StoreIds :
       tk' = [tk EXCEPT ![t] = [IdleTask EXCEPT !.pc = "lock", !.name = id.name,
                                  !.labels = id.labels, !.value = issued + 1]]
  /\ ncalls' = ncalls + 1
  /\ issued' = issued + 1
  /\ UNCHANGED <<st, mu, rd, clock, ticks, budget, completed, ringVars, keyVars, engineVars, scrapeVars>>

\* st.mu.Lock()
UpdLock(t) ==
  /\ tk[t].pc = "lock"
  /\ CanLock(t)
  /\ mu' = t
  /\ tk' = [tk EXCEPT ![t].pc = "lookup"]
  /\ UNCHANGED <<st, rd, clock, ticks, budget, ncalls, issued, completed, ringVars, keyVars, engineVars, scrapeVars>>

\* key := seriesKey(name, labels); s, ok := st.series[key]
UpdLookup(t) ==
  /\ tk[t].pc = "lookup"
  /\ \E order \in RangeOrders(tk[t].labels) :
       LET key == seriesKey(tk[t].name, tk[t].labels, order)
           ptr == lookup(st, key)
       IN  tk' = [tk EXCEPT ![t].key = key, ![t].ptr = ptr,
                            ![t].pc = IF ptr = 0 THEN "create" ELSE "now"]
  /\ UNCHANGED <<st, mu, rd, clock, ticks, budget, ncalls, issued, completed, ringVars, keyVars, engineVars, scrapeVars>>

\* if !ok { s = &metricSeries{...}; st.series[key] = s; ... }
UpdCreate(t) ==
  /\ tk[t].pc = "create"
  /\ st' = create(st, tk[t].key, tk[t].name, tk[t].labels, << >>, << >>)
  /\ tk' = [tk EXCEPT ![t].ptr = Len(st.heap) + 1, ![t].pc = "now"]
  /\ UNCHANGED <<mu, rd, clock, ticks, budget, ncalls, issued, completed, ringVars, keyVars, engineVars, scrapeVars>>

\* s.push(value): now := time.Now()
UpdNow(t) ==
  /\ tk[t].pc = "now"
  /\ tk' = [tk EXCEPT ![t].now = clock, ![t].before = st.heap[tk[t].ptr],
                      ![t].pc = "value"]
  /\ UNCHANGED <<st, mu, rd, clock, ticks, budget, ncalls, issued, completed, ringVars, keyVars, engineVars, scrapeVars>>

\* s.values[s.idx] = v
UpdValue(t) ==
  /\ tk[t].pc = "value"
  /\ st' = [st EXCEPT !.heap[tk[t].ptr] = pushWriteValue(@, tk[t].value)]
  /\ tk' = [tk EXCEPT ![t].pc = "time"]
  /\ UNCHANGED <<mu, rd, clock, ticks, budget, ncalls, issued, completed, ringVars, keyVars, engineVars, scrapeVars>>

\* s.times[s.idx] = now
UpdTime(t) ==
  /\ tk[t].pc = "time"
  /\ st' = [st EXCEPT !.heap[tk[t].ptr] = pushWriteTime(@, tk[t].now)]
  /\ tk' = [tk EXCEPT ![t].pc = "index"]
  /\ UNCHANGED <<mu, rd, clock, ticks, budget, ncalls, issued, completed, ringVars, keyVars, engineVars, scrapeVars>>

\* s.idx = (s.idx + 1) % ringSize
UpdIndex(t) ==
  /\ tk[t].pc = "index"
  /\ st' = [st EXCEPT !.heap[tk[t].ptr] = pushAdvance(@)]
  /\ tk' = [tk EXCEPT ![t].pc = "full"]
  /\ UNCHANGED <<mu, rd, clock, ticks, budget, ncalls, issued, completed, ringVars, keyVars, engineVars, scrapeVars>>

\* if s.idx == 0 { s.full = true }: the push is complete
UpdFull(t) ==
  /\ tk[t].pc = "full"
  /\ st' = [st EXCEPT !.heap[tk[t].ptr] = pushSetFull(@)]
  /\ tk' = [tk EXCEPT ![t].pc = "unlock", ![t].before = 0]
  /\ completed' =
       [k \in DOMAIN completed \cup {tk[t].key} |->
          IF k = tk[t].key
          THEN (IF k \in DOMAIN completed THEN completed[k] ELSE << >>)
                 \o <<tk[t].value>>
          ELSE completed[k]]
  /\ UNCHANGED <<mu, rd, clock, ticks, budget, ncalls, issued, ringVars, keyVars, engineVars, scrapeVars>>

\* the deferred st.mu.Unlock()
UpdUnlock(t) ==
  /\ tk[t].pc = "unlock"
  /\ mu' = NoTask
  /\ tk' = [tk EXCEPT ![t] = IdleTask]
  /\ UNCHANGED <<st, rd, clock, ticks, budget, ncalls, issued, completed, ringVars, keyVars, engineVars, scrapeVars>>

\* time passes
Tick ==
  /\ ticks < MaxTicks
  /\ ticks' = ticks + 1
  /\ clock' = clock + 1
  /\ UNCHANGED <<st, mu, tk, rd, budget, ncalls, issued, completed, ringVars, keyVars, engineVars, scrapeVars>>

\* what slice(), last(), rate() and rateSlice() can tell of a series: the
\* values and the times oldest first, the count and the last value
View(s) ==
  [ values |-> slice(s), times |-> timesSlice(s), n |-> count(s), last |-> last(s) ]

\* the views of the series at p after a whole number of pushes, at this
\* moment: as it is when no push is under way, and else as it was before
\* the push began and as it will be when the push is complete
WholeViews(p) ==
  LET W == {t \in Scrapers : tk[t].ptr = p /\ tk[t].pc \in {"value", "time", "index", "full"}}
  IN  IF W = {} THEN {View(st.heap[p])}
      ELSE UNION { { View(tk[t].before),
                     View(pushAt(tk[t].before, tk[t].value, tk[t].now)) } : t \in W }

\* refresh tick: names := st.names(); with no name yet the tick ends, else
\* selName is the name the navigation state selects, or "" when the filtered
\* list is empty
RdNames ==
  /\ rd.pc = "tick"
  /\ CanRLock
  /\ names(st) # << >>
  /\ \E i \in 0..Len(names(st)) :
       rd' = [rd EXCEPT !.pc = "series",
                        !.sel = IF i = 0 THEN << >> ELSE names(st)[i]]
  /\ UNCHANGED <<st, mu, tk, clock, ticks, budget, ncalls, issued, completed, ringVars, keyVars, engineVars, scrapeVars>>

\* seriesList := st.seriesForName(selName); chartSeries is seriesList, or the
\* one series selected in the series table
RdSeriesForName ==
  /\ rd.pc = "series"
  /\ CanRLock
  /\ LET seriesList == seriesForName(st, rd.sel)
     IN  \E chartSeries \in {seriesList} \cup
                             { <<seriesList[k]>> : k \in 1..Len(seriesList) } :
           rd' = [rd EXCEPT !.pc = "read", !.list = chartSeries, !.i = 1]
  /\ UNCHANGED <<st, mu, tk, clock, ticks, budget, ncalls, issued, completed, ringVars, keyVars, engineVars, scrapeVars>>

\* for i, cs := range chartSeries { data = cs.slice() ... }: the series are
\* read with no lock held; after the last one the tick is over
RdRead ==
  /\ rd.pc = "read"
  /\ IF rd.i > Len(rd.list)
     THEN rd' = IdleRefresh
     ELSE LET p == rd.list[rd.i]
          IN  rd' = [rd EXCEPT !.i = rd.i + 1,
                               !.obsLast = last(st.heap[p]),
                               !.obsCount = count(st.heap[p]),
                               !.whole = View(st.heap[p]) \in WholeViews(p)]
  /\ UNCHANGED <<st, mu, tk, clock, ticks, budget, ncalls, issued, completed, ringVars, keyVars, engineVars, scrapeVars>>

UpdNext ==
  \E t \in Scrapers :
    \/ UpdCall(t) \/ UpdLock(t) \/ UpdLookup(t) \/ UpdCreate(t) \/ UpdNow(t)
    \/ UpdValue(t) \/ UpdTime(t) \/ UpdIndex(t) \/ UpdFull(t) \/ UpdUnlock(t)

StoreNext == UpdNext \/ Tick

SpecStore == StoreInit /\ [][StoreNext]_vars

ReadNext == UpdNext \/ RdNames \/ RdSeriesForName \/ RdRead

SpecRead == ReadInit /\ [][ReadNext]_vars

\* ------------------------------------ scrape: one call of scrapeTarget

\* strings.Repeat(c, n) for a one-byte string, n >= 1
RECURSIVE Repeat(_, _)
Repeat(c, n) ==
  IF n = 1 THEN <<c>>
  ELSE LET half == Repeat(c, n \div 2)
       IN  IF n % 2 = 0 THEN half \o half ELSE half \o half \o <<c>>

\* a line that does not fit the scanner's buffer
LongLine == Repeat("x", MaxScanTokenSize)

\* the lines response bodies are made of; a body is a sequence of indexes
\* into this list
Lines ==
  << Chars("# HELP a foo"),
     Chars("# TYPE b counter"),
     Chars("a 1"),
     Chars("b 2.5"),
     Chars("a{x=\"1\"} 3"),
     Chars("a{x=\"1\" 4"),
     Chars("a x"),
     Chars("a"),
     << >>,
     Chars("# note"),
     LongLine,
     Chars("a 7"),
     Chars("# TYPE h histogram"),
     Chars("h_count 3"),
     Chars("h_sum 4"),
     Chars("h_bucket 2"),
     Chars("# TYPE s summary"),
     Chars("s_count 1"),
     Chars("# TYPE c counter"),
     Chars("c 5"),
     Chars("# TYPE r_total gauge"),
     Chars("r_total 1") >>

\* the lines the bodies of the parser specification are drawn from
ParseLines == 1..11

\* all bodies of at most n lines
RECURSIVE BodiesUpTo(_)
BodiesUpTo(n) ==
  IF n = 0 THEN { << >> }
  ELSE LET B == BodiesUpTo(n - 1)
       IN  B \cup { Append(b, l) : b \in {x \in B : Len(x) = n - 1}, l \in ParseLines }

\* no read error
NoFail == -1

\* what a request may get: err is the error of client.Get; body is what the
\* target sends; failAt is the number of lines the scanner delivers before a
\* read of resp.Body fails (connection lost, Client.Timeout), or NoFail
Refused == [err |-> TRUE, body |-> << >>, failAt |-> NoFail]

Response(body, failAt) == [err |-> FALSE, body |-> body, failAt |-> failAt]

\* a scrapeTarget call that has not begun
NotCalled(target) ==
  [ pc |-> "none", target |-> target, resp |-> Refused, pos |-> 0,
    p |-> NoAnnotation, log |-> << >>, fault |-> FALSE ]

\* the targets []string of scrape
Targets == << "t1", "t2" >>

\* the call of the parser specification
ParseCall == <<0, "t1">>

ParseInit ==
  /\ \E b \in BodiesUpTo(MaxBodyLen) :
       script = [t \in {"t1"} |-> {Response(b, NoFail)}]
  /\ job = [j \in {ParseCall} |-> [NotCalled("t1") EXCEPT !.pc = "get"]]
  /\ sched = 0
  /\ cancelled = FALSE
  /\ st = newStore
  /\ clock = 1
  /\ LockIdle /\ RingIdle /\ KeyIdle /\ EngineIdle

\* resp, err := client.Get(url); if err != nil { return }
GetFail(j) ==
  /\ job[j].pc = "get"
  /\ \E r \in script[job[j].target] : r.err
  /\ job' = [job EXCEPT ![j].pc = "done", ![j].fault = TRUE]
  /\ UNCHANGED <<script, sched, cancelled, storeVars, ringVars, keyVars, engineVars>>

\* client.Get returns a response; scanner := bufio.NewScanner(resp.Body)
GetOk(j) ==
  /\ job[j].pc = "get"
  /\ \E r \in script[job[j].target] :
       /\ ~r.err
       /\ job' = [job EXCEPT ![j].pc = "scan", ![j].resp = r, ![j].pos = 0,
                             ![j].p = NoAnnotation]
  /\ UNCHANGED <<script, sched, cancelled, storeVars, ringVars, keyVars, engineVars>>

\* per line of the list: whether scanner.Scan() gives up on it
TooLong == [id \in DOMAIN Lines |-> tooLong(Lines[id])]

\* the st.update calls `for scanner.Scan() { ... }` makes from line pos + 1
\* of a body on, when no read fails
RECURSIVE scanFrom(_, _, _)
scanFrom(p, body, pos) ==
  IF pos = Len(body) THEN << >>
  ELSE IF TooLong[body[pos + 1]] THEN << >>
  ELSE LET r == scanLine(p, Lines[body[pos + 1]])
       IN  r.call \o scanFrom(r.p, body, pos + 1)

\* the st.update calls scrapeTarget makes for a body that is read to its end
scanBody(body) == scanFrom(NoAnnotation, body, 0)

\* the next line of the body of call j
NextLine(j) == Lines[job[j].resp.body[job[j].pos + 1]]

\* scanner.Scan() returns false: the body has ended, a read has failed, or
\* the next line does not fit the buffer
ScanStops(j) ==
  IF job[j].pos = job[j].resp.failAt \/ job[j].pos = Len(job[j].resp.body)
  THEN TRUE
  ELSE TooLong[job[j].resp.body[job[j].pos + 1]]

\* one turn of `for scanner.Scan() { ... }`, st.update(...) included
ScanLine(j) ==
  /\ job[j].pc = "scan"
  /\ ~ScanStops(j)
  /\ LET r == scanLine(job[j].p, NextLine(j))
     IN  IF r.call = << >>
         THEN /\ job' = [job EXCEPT ![j].pos = @ + 1, ![j].p = r.p]
              /\ st' = st
         ELSE LET c == r.call[1]
              IN  /\ job' = [job EXCEPT ![j].pos = @ + 1, ![j].p = r.p,
                                        ![j].log = Append(@, [at |-> job[j].pos + 1, call |-> c])]
                  /\ \E order \in RangeOrders(c.labels) :
                       st' = update(st, c.name, c.labels, order, c.help, c.mtype,
                                    c.val, clock)
  /\ UNCHANGED <<script, sched, cancelled, clock, lockVars, ringVars, keyVars, engineVars>>

\* the loop ends and scrapeTarget returns (scanner.Err() is not looked at)
ScanEnd(j) ==
  /\ job[j].pc = "scan"
  /\ ScanStops(j)
  /\ job' = [job EXCEPT ![j].pc = "done",
                        ![j].fault = (job[j].pos = job[j].resp.failAt)]
  /\ UNCHANGED <<script, sched, cancelled, storeVars, ringVars, keyVars, engineVars>>

ParseNext == \E j \in {ParseCall} : GetOk(j) \/ ScanLine(j) \/ ScanEnd(j)

SpecParse == ParseInit /\ [][ParseNext]_vars

\* ------------------------------------ scrape: families and their samples

\* strings.HasSuffix
HasSuffix(s, x) == Len(s) >= Len(x) /\ SubSeq(s, Len(s) - Len(x) + 1, Len(s)) = x

\* detectMetricType(name, mtype)
detectMetricType(name, mtype) == IF mtype # << >> THEN mtype ELSE Chars("gauge")

\* metricSeries.detectedType()
detectedType(s) == detectMetricType(s.name, s.mtype)

\* metricSeries.isCounter()
isCounter(s) == detectedType(s) = Chars("counter")

\* metricSeries.shouldRate()
shouldRate(s) ==
  LET dt == detectedType(s)
      cs == HasSuffix(s.name, Chars("_count")) \/ HasSuffix(s.name, Chars("_sum"))
  IN  IF dt = Chars("counter") THEN TRUE
      ELSE IF dt = Chars("summary") /\ cs THEN TRUE
      ELSE IF dt = Chars("histogram") /\ cs THEN TRUE
      ELSE FALSE

\* expositions of one family: its TYPE line and one of its samples, or a
\* sample of a family without a TYPE line
FamilyBlocks ==
  { <<13, 14>>, <<13, 15>>, <<13, 16>>, <<17, 18>>, <<19, 20>>, <<3>>,
    <<21, 22>>, <<22>> }

\* response bodies of one or two families
IngestBodies == FamilyBlocks \cup { a \o b : a, b \in FamilyBlocks }

IngestInit ==
  /\ \E b \in IngestBodies :
       script = [t \in {"t1"} |-> {Response(b, NoFail)}]
  /\ job = [j \in {ParseCall} |-> [NotCalled("t1") EXCEPT !.pc = "get"]]
  /\ sched = 0
  /\ cancelled = FALSE
  /\ st = newStore
  /\ clock = 1
  /\ LockIdle /\ RingIdle /\ KeyIdle /\ EngineIdle

SpecIngest == IngestInit /\ [][ParseNext]_vars

\* ------------------------------------ scrape: the scheduling of the calls

TargetSet == { Targets[i] : i \in 1..Len(Targets) }

\* the calls of scrapeTarget: those of the eager round (round 0) and of the
\* rounds the ticker starts
SchedTasks == (0..MaxRounds) \X TargetSet

\* what a request to each target may get.  t1: it is refused or times out
\* before a response begins, or the one-line body is read to its end, or a
\* read fails after the first line of a two-line body.  t2: it is refused, or
\* the one-line body is read to its end.
SchedScript ==
  [ t \in TargetSet |->
      IF t = "t1" THEN { Refused, Response(<<3>>, NoFail), Response(<<3, 4>>, 1) }
      ELSE { Refused, Response(<<12>>, NoFail) } ]

SchedInit ==
  /\ job = [j \in SchedTasks |-> NotCalled(j[2])]
  /\ script = SchedScript
  /\ sched = [pc |-> "eager", i |-> 1, round |-> 0, pending |-> FALSE, fired |-> 0]
  /\ cancelled = FALSE
  /\ st = newStore
  /\ clock = 1
  /\ LockIdle /\ RingIdle /\ KeyIdle /\ EngineIdle

\* for _, target := range targets { scrapeTarget(client, target, st) }: the
\* call for the next target begins
EagerCall ==
  /\ sched.pc = "eager"
  /\ job' = [job EXCEPT ![<<0, Targets[sched.i]>>].pc = "get"]
  /\ sched' = [sched EXCEPT !.pc = "incall"]
  /\ UNCHANGED <<script, cancelled, storeVars, ringVars, keyVars, engineVars>>

\* the call returns; after the last target, ticker := time.NewTicker(...)
EagerReturn ==
  /\ sched.pc = "incall"
  /\ job[<<0, Targets[sched.i]>>].pc = "done"
  /\ sched' = IF sched.i = Len(Targets) THEN [sched EXCEPT !.pc = "wait"]
              ELSE [sched EXCEPT !.pc = "eager", !.i = @ + 1]
  /\ UNCHANGED <<job, script, cancelled, storeVars, ringVars, keyVars, engineVars>>

\* scrapeInterval has passed: the ticker makes a tick ready
TickerFire ==
  /\ sched.pc = "wait"
  /\ ~sched.pending
  /\ sched.fired < MaxRounds
  /\ sched' = [sched EXCEPT !.pending = TRUE, !.fired = @ + 1]
  /\ clock' = clock + 1
  /\ UNCHANGED <<job, script, cancelled, st, lockVars, ringVars, keyVars, engineVars>>

\* case <-ticker.C: one goroutine per target (select may take this case also
\* when ctx is done)
SchedTick ==
  /\ sched.pc = "wait"
  /\ sched.pending
  /\ sched' = [sched EXCEPT !.pending = FALSE, !.round = @ + 1]
  /\ job' = [j \in SchedTasks |->
               IF j[1] = sched.round + 1 THEN [job[j] EXCEPT !.pc = "get"] ELSE job[j]]
  /\ UNCHANGED <<script, cancelled, storeVars, ringVars, keyVars, engineVars>>

\* case <-ctx.Done(): return
SchedDone ==
  /\ sched.pc = "wait"
  /\ cancelled
  /\ sched' = [sched EXCEPT !.pc = "done"]
  /\ UNCHANGED <<job, script, cancelled, storeVars, ringVars, keyVars, engineVars>>

\* cancel()
Cancel ==
  /\ ~cancelled
  /\ cancelled' = TRUE
  /\ UNCHANGED <<job, script, sched, storeVars, ringVars, keyVars, engineVars>>

SchedNext ==
  \/ EagerCall \/ EagerReturn \/ TickerFire \/ SchedTick \/ SchedDone \/ Cancel
  \/ \E j \in SchedTasks : GetFail(j) \/ GetOk(j) \/ ScanLine(j) \/ ScanEnd(j)

SpecSched == SchedInit /\ [][SchedNext]_vars

\* ------------------------------------------------ claims: ring buffer

\* C1: after any number n of pushes, slice() has length min(n, ringSize) and is
\* exactly the last min(n, ringSize) pushed values, oldest first; last() is the
\* value pushed most recently, and 0 before any push; after ringSize + k
\* pushes (0 <= k < ringSize) slice()[0] is the value of push index k and
\* slice()[ringSize-1] is the most recent push.
C1_SliceHoldsLastPushes ==
  LET n   == Len(pushed)
      m   == Min2(n, ringSize)
      out == slice(rb)
  IN  /\ Len(out) = m
      /\ \A j \in 1..m : out[j] = pushed[n - m + j]
      /\ last(rb) = (IF n = 0 THEN 0 ELSE pushed[n])
      /\ \A k \in 0..ringSize - 1 :
           n = ringSize + k => out[1] = pushed[k + 1] /\ out[ringSize] = pushed[n]

\* the buffer has wrapped by three pushes and slice() starts at push index 3
C1_Witness ==
  /\ Len(pushed) = ringSize + 3
  /\ rb.full /\ rb.idx = 3
  /\ slice(rb)[1] = pushed[4]
  /\ slice(rb)[ringSize] = pushed[ringSize + 3]

\* ------------------------------------------------------ claims: store

\* the last m elements of the sequence q
LastOf(q, m) == [j \in 1..m |-> q[Len(q) - m + j]]

\* the sequence of strings is strictly ascending in byte order
StrictlyAscending(q) == \A i \in 1..Len(q) - 1 : StrLess(q[i], q[i + 1])

\* the one strictly ascending arrangement of a set of strings
Ascending(K) == CHOOSE e \in Enumerations(K) : StrictlyAscending(e)

\* C2 (as claimed): every read the refresh task makes of a Series it got from
\* seriesForName() sees the ring buffer as it is after a whole number of
\* completed pushes, never a half-applied push.
C2_ReadsSeeWholePushes == rd.whole

\* no scrape task is between the first and the last write of a push
NoPushUnderWay ==
  \A t \in Scrapers : tk[t].pc \notin {"value", "time", "index", "full"}

\* C3: store.update calls of concurrent scrape tasks are serialised by the
\* store lock: there is never more than one Series object for a key, and when
\* no push is under way every key with k completed updates holds exactly
\* min(k, ringSize) samples, which are the last min(k, ringSize) completed
\* ones in the order of completion: none lost, none overwritten by another.
C3_UpdatesSerialised ==
  /\ \A p, q \in 1..Len(st.heap) : st.heap[p].key = st.heap[q].key => p = q
  /\ NoPushUnderWay =>
       \A k \in DOMAIN completed :
         /\ k \in DOMAIN st.series
         /\ LET s == st.heap[st.series[k]]
                m == Min2(Len(completed[k]), ringSize)
            IN  /\ count(s) = m
                /\ slice(s) = LastOf(completed[k], m)
                /\ last(s) = completed[k][Len(completed[k])]

\* two calls for the same key were in flight together, the one issued second
\* pushed first, and their two pushes wrapped the ring
C3_Witness ==
  /\ \A t \in Scrapers : tk[t].pc = "idle"
  /\ <<"a">> \in DOMAIN completed
  /\ Len(completed[<<"a">>]) = ringSize + 1
  /\ LastOf(completed[<<"a">>], 2) = <<ringSize + 1, ringSize>>
  /\ st.heap[st.series[<<"a">>]].full
  /\ slice(st.heap[st.series[<<"a">>]])[ringSize] = ringSize

\* C4: after any updates in any order and interleaving the key list is
\* strictly ascending (so free of duplicates) and holds exactly the keys of
\* the series map; snapshot() returns one Series per key in that order, so the
\* order is a function of the set of keys alone.
C4_KeyListSorted ==
  /\ StrictlyAscending(st.order)
  /\ Elems(st.order) = DOMAIN st.series
  /\ st.order = Ascending(DOMAIN st.series)
  /\ LET snap == snapshot(st)
     IN  /\ Len(snap) = Cardinality(DOMAIN st.series)
         /\ \A i \in 1..Len(snap) : st.heap[snap[i]].key = st.order[i]

\* the series b was created before the series a{x=1}, and the key list has
\* them in ascending order
C4_Witness ==
  /\ Len(st.heap) = 3
  /\ st.heap[2].key = <<"b">>
  /\ st.heap[3].key = <<"a", "{", "x", "=", "1", "}">>
  /\ st.order = << <<"a">>, <<"a", "{", "x", "=", "1", "}">>, <<"b">> >>

\* C5: names() is sorted, free of duplicates, and its elements are the names
\* of the stored series; for each of them seriesForName() returns exactly the
\* stored series of that name in ascending key order, and seriesCount() is
\* the length of that list and at least 1.
C5_NamesAndFamilies ==
  LET ns == names(st)
  IN  /\ StrictlyAscending(ns)
      /\ Elems(ns) = { st.heap[st.series[k]].name : k \in DOMAIN st.series }
      /\ \A i \in 1..Len(ns) :
           LET l == seriesForName(st, ns[i])
           IN  /\ Elems(l) = { st.series[k] : k \in
                                 { x \in DOMAIN st.series :
                                     st.heap[st.series[x]].name = ns[i] } }
               /\ \A j \in 1..Len(l) - 1 :
                    StrLess(st.heap[l[j]].key, st.heap[l[j + 1]].key)
               /\ seriesCount(st, ns[i]) = Len(l)
               /\ Len(l) >= 1

\* two families, the family a with its two series listed in key order
C5_Witness ==
  /\ names(st) = << <<"a">>, <<"b">> >>
  /\ Len(seriesForName(st, <<"a">>)) = 2
  /\ st.heap[seriesForName(st, <<"a">>)[1]].key = <<"a">>
  /\ seriesCount(st, <<"b">>) = 1

\* ------------------------------------------------- claims: series key

\* two identities are the same when name and label set (the key/value pairs,
\* nil and the empty map alike) are the same
SameIdentity(a, b) == a.name = b.name /\ Pairs(a.labels) = Pairs(b.labels)

\* name{k1=v1,k2=v2} written out pair by pair along the ascending key order
RECURSIVE RenderPairs(_, _)
RenderPairs(kv, ks) ==
  IF Len(ks) = 1 THEN ks[1] \o <<"=">> \o kv[ks[1]]
  ELSE ks[1] \o <<"=">> \o kv[ks[1]] \o <<",">> \o RenderPairs(kv, Tail(ks))

CanonicalKey(name, labels) ==
  LET ks == CHOOSE e \in Enumerations(DOMAIN labels.kv) :
              \A i \in 1..Len(e) - 1 : StrLess(e[i], e[i + 1])
  IN  name \o <<"{">> \o RenderPairs(labels.kv, ks) \o <<"}">>

\* C6 (as claimed): two observations denote the same stored series if and only
\* if they have the same name and the same label set; updates whose identities
\* differ get distinct keys and distinct Series, for all label keys and values,
\* also ones containing ',' or '='.
C6_KeyInjective ==
  kout.done =>
    /\ (kout.ka = kout.kb) <=> SameIdentity(kin.a, kin.b)
    /\ ~SameIdentity(kin.a, kin.b) => Len(kout.st.heap) = 2

\* C7: seriesKey does not depend on the order in which the label pairs are
\* enumerated: equal names with equal key/value pairs give equal keys; the key
\* is the bare name for a nil or empty label set and name{k1=v1,k2=v2} with the
\* keys ascending otherwise.
C7_KeyOrderIndependent ==
  kout.done =>
    /\ SameIdentity(kin.a, kin.b) => kout.ka = kout.kb
    /\ kout.ka = (IF Pairs(kin.a.labels) = {} THEN kin.a.name
                  ELSE CanonicalKey(kin.a.name, kin.a.labels))
    /\ kout.kb = (IF Pairs(kin.b.labels) = {} THEN kin.b.name
                  ELSE CanonicalKey(kin.b.name, kin.b.labels))

\* the same two-label set enumerated in the two possible orders, one key
C7_Witness ==
  /\ kout.done
  /\ SameIdentity(kin.a, kin.b)
  /\ Len(kin.ea) = 2 /\ kin.ea # kin.eb
  /\ kout.ka = kout.kb
  /\ kout.ka = <<"m", "{", "a", "=", "1", ",", "b", "=", "2", "}">>

\* ------------------------------------------------------ claims: parser

\* per line of the list: whether it is a HELP or TYPE annotation, the name it
\* announces and the text it gives
Ann ==
  [ id \in DOMAIN Lines |->
      LET line  == Lines[id]
          kind  == IF HasPrefix(line, Chars("# HELP ")) THEN "help"
                   ELSE IF HasPrefix(line, Chars("# TYPE ")) THEN "type"
                   ELSE "none"
          parts == IF kind = "none" THEN << << >> >>
                   ELSE SplitN2(SliceFrom(line, 7), " ")
      IN  [ kind |-> kind, name |-> parts[1],
            text |-> IF Len(parts) > 1 THEN parts[2] ELSE << >> ] ]

\* C8 (as claimed): the help text and the type attached to a stored sample
\* are announced by an earlier annotation naming exactly the sample's bare
\* name, help or type announced for another family is never attached, and a
\* sample whose bare name is not the most recently announced base name gets
\* empty help and type.
C8_MetadataScoped ==
  \A k \in 1..Len(job[ParseCall].log) :
    LET e      == job[ParseCall].log[k]
        body   == job[ParseCall].resp.body
        before == 1..e.at - 1
        anns   == {i \in before : Ann[body[i]].kind # "none"}
    IN  /\ e.call.help # << >> =>
             \E i \in before : /\ Ann[body[i]].kind = "help"
                               /\ Ann[body[i]].name = e.call.name
                               /\ Ann[body[i]].text = e.call.help
        /\ e.call.mtype # << >> =>
             \E i \in before : /\ Ann[body[i]].kind = "type"
                               /\ Ann[body[i]].name = e.call.name
                               /\ Ann[body[i]].text = e.call.mtype
        /\ (anns = {} \/ Ann[body[MaxOf(anns)]].name # e.call.name) =>
             e.call.help = << >> /\ e.call.mtype = << >>

\* per line of the list: whether the filter of C9 removes it, as blank, as a
\* comment that is no annotation, as having no space, or as having a value
\* that is no number
Removed ==
  [ id \in DOMAIN Lines |->
      LET line     == Lines[id]
          spaceIdx == LastIndex(line, " ")
      IN  /\ Ann[id].kind = "none"
          /\ \/ line = << >>
             \/ HasPrefix(line, <<"#">>)
             \/ spaceIdx < 0
             \/ ~ParseFloat(SliceFrom(line, spaceIdx + 1)).ok ]

\* the body without the lines the filter removes
RECURSIVE Kept(_)
Kept(body) ==
  IF body = << >> THEN << >>
  ELSE (IF Removed[Head(body)] THEN << >> ELSE <<Head(body)>>) \o Kept(Tail(body))

\* the st.update calls of a log, without the lines they came from
Calls(log) == [k \in 1..Len(log) |-> log[k].call]

\* the metric part of line id opens a label block and does not close it
Unclosed(id) ==
  LET line == Lines[id]
      part == SliceTo(line, LastIndex(line, " "))
      open == Index(part, "{")
  IN  open >= 0 /\ Index(SliceFrom(part, open + 1), "}") < 0

\* C9 (as claimed): a malformed line never aborts a scrape: the updates a
\* body leads to are those of the body without its malformed, blank and
\* comment lines, and a sample whose label block is not closed is stored
\* under the bare name with no labels.
C9_MalformedLinesSkipped ==
  job[ParseCall].pc = "done" =>
    /\ Calls(job[ParseCall].log) = scanBody(Kept(job[ParseCall].resp.body))
    /\ \A k \in 1..Len(job[ParseCall].log) :
         LET e  == job[ParseCall].log[k]
             id == job[ParseCall].resp.body[e.at]
         IN  Unclosed(id) =>
               /\ e.call.name = SliceTo(Lines[id], Index(Lines[id], "{"))
               /\ Pairs(e.call.labels) = {}

\* --------------------------------------------------- claims: scheduler

\* C10 (as claimed): a scrape that meets a transport error (the request
\* fails, or a read of the response fails or times out) leaves the store as
\* it was: it has made no st.update call.
C10_TransportErrorChangesNothing ==
  \A j \in SchedTasks : job[j].fault => job[j].log = << >>

\* ------------------------------------------------------------ rate engine

\* the samples the buffer still holds, oldest first
Retained == LastOf(hist, Min2(Len(hist), ringSize))

\* the slot that holds the k-th retained sample
SlotOf(k) == ((IF rs.full THEN rs.idx ELSE 0) + k - 1) % ringSize

NonDecreasing(R) == \A k \in 1..Len(R) - 1 : R[k].t <= R[k + 1].t

\* max(0, a) on float64
FMax0(a) == IF a.k = "nan" THEN a ELSE IF a.n < 0 THEN FNum(0) ELSE a

\* the rate between an older sample a and a newer sample b, 0 when no time
\* has passed between them
RateBetween(a, b) ==
  IF b.t - a.t > 0 THEN FDiv(FMax0(FSub(b.v, a.v)), b.t - a.t) ELSE FZero

\* C11: for every buffer content and every window, rate(window) is >= 0 (it is
\* 0 with fewer than 2 samples, with no time elapsed since the baseline, and
\* with a newest value below the baseline value), and every element of
\* rateSlice is >= 0.
C11_RateNeverNegative ==
  rq.q.asked =>
    /\ FNonNegative(rq.q.rate)
    /\ Len(hist) < 2 => rq.q.rate = FZero
    /\ \A i \in 1..Len(rq.q.rates.elems) : FNonNegative(rq.q.rates.elems[i])

\* C12: with at least 2 samples and non-decreasing timestamps, wrapped or not,
\* the baseline of rate(window) is the oldest retained sample whose time lies
\* in [t_n - window, t_n], the result is max(0, v_n - v_0) / (t_n - t_0), and
\* the scan reads only written slots, each at most once and never the newest.
C12_RateBaselineInWindow ==
  LET R  == Retained
      n  == Len(R)
  IN
  (rq.q.asked /\ Len(hist) >= 2 /\ NonDecreasing(R)) =>
    LET slots == { SlotOf(k) : k \in 1..n - 1 }
        W  == { k \in 1..n : R[n].t - rq.q.window <= R[k].t /\ R[k].t <= R[n].t }
        k0 == MinOf(W)
    IN  /\ rq.q.oldest = SlotOf(k0)
        /\ rq.q.rate = RateBetween(R[k0], R[n])
        /\ \A j \in 1..Len(rq.q.reads) :
             /\ rq.q.reads[j] \in slots
             /\ \A h \in 1..j - 1 : rq.q.reads[h] # rq.q.reads[j]

\* a wrapped buffer whose scan goes round the end of the storage and stops on
\* a baseline exactly window seconds before the newest sample
C12_Witness ==
  /\ rq.q.asked /\ rs.full /\ Len(hist) > ringSize
  /\ NonDecreasing(Retained)
  /\ rq.q.oldest > newestIdx(rs)
  /\ rs.times[rq.q.oldest] = rs.times[newestIdx(rs)] - rq.q.window
  /\ Len(rq.q.reads) = 2
  /\ rq.q.rate = Ratio(2, 1)

\* C13 as stated: N >= 2 pushed samples give exactly N - 1 values, fewer than
\* 2 give nil.
C13_RateSliceOnePerPushedPair ==
  rq.q.asked =>
    IF Len(hist) < 2 THEN rq.q.rates.isNil
    ELSE ~rq.q.rates.isNil /\ Len(rq.q.rates.elems) = Len(hist) - 1

\* C13: with n = min(N, ringSize) samples retained of the N pushed, rateSlice
\* returns nil when n < 2 and otherwise exactly n - 1 values, the k-th being
\* the rate between the k-th and the (k+1)-th retained sample, oldest first.
C13_RateSliceOnePerRetainedPair ==
  rq.q.asked =>
    LET R == Retained
    IN  IF Len(R) < 2 THEN rq.q.rates.isNil
        ELSE /\ ~rq.q.rates.isNil
             /\ Len(rq.q.rates.elems) = Len(R) - 1
             /\ \A k \in 1..Len(R) - 1 :
                  rq.q.rates.elems[k] = RateBetween(R[k], R[k + 1])

\* more samples pushed than the buffer holds, the last pair a rise and the
\* pair before it a counter reset
C13_Witness ==
  /\ rq.q.asked /\ Len(hist) > ringSize
  /\ Len(rq.q.rates.elems) = ringSize - 1
  /\ rq.q.rates.elems[ringSize - 1] = Ratio(2, 3)
  /\ rq.q.rates.elems[ringSize - 2] = FZero
  /\ hist[Len(hist)].v = FNum(3) /\ hist[Len(hist) - 1].v = FNum(1)
  /\ hist[Len(hist) - 1].t > hist[Len(hist) - 2].t

\* -------------------------------------------------------- unit classifier

\* the unit identifiers of a list of rules
UnitIds(units) == { units[i].Unit : i \in 1..Len(units) }

\* C14: the merged configuration is all override rules in override order, then
\* the base rules whose unit identifier the override does not use, in base
\* order; a nil override gives the base rules; so every rule of an overridden
\* unit comes before every base-only rule.
C14_MergeOverrideFirst ==
  (ucall.op = "init" /\ ucall.file.kind \in { "none", "ok" }) =>
    LET base   == ubase.Units
        ov     == ucall.file.Units
        merged == ucall.out.merged.Units
        kept   == { i \in 1..Len(base) : base[i].Unit \notin UnitIds(ov) }
    IN  IF ucall.file.kind = "none" THEN merged = base
        ELSE /\ Len(merged) = Len(ov) + Cardinality(kept)
             /\ \A i \in 1..Len(ov) : merged[i] = ov[i]
             /\ \A i \in kept :
                  merged[Len(ov) + Cardinality({ h \in kept : h <= i })] = base[i]
             /\ \A a \in 1..Len(merged), b \in 1..Len(merged) :
                  (merged[a].Unit \in UnitIds(ov) /\ merged[b].Unit \notin UnitIds(ov))
                    => a < b

\* an override that replaces one base rule, adds a rule of its own and leaves
\* two base rules alone
C14_Witness ==
  /\ ucall.op = "init" /\ ucall.file.kind = "ok"
  /\ Len(ucall.file.Units) = 2
  /\ UnitIds(ucall.file.Units) = { "custom", "bytes" }
  /\ Len(ucall.out.merged.Units) = 4
  /\ ucall.out.merged.Units[2].Suffix = " [B]"
  /\ ucall.out.merged.Units[3] = TimestampRule

\* C15: Match(name) returns the unit and suffix of the first pattern that
\* matches name, rules taken in configuration order and patterns in the order
\* of their rule, and no match when no pattern matches.
C15_FirstMatchWins ==
  (ucall.op = "match" /\ ~globalUnitMatcher.isNil) =>
    LET U == ucfg.Units
        P == { p \in (1..Len(U)) \X (1..MaxOf({ Len(U[i].Matchers) : i \in 1..Len(U) }
                                             \cup {0})) :
                 /\ p[2] <= Len(U[p[1]].Matchers)
                 /\ MatchString(U[p[1]].Matchers[p[2]], ucall.name) }
    IN  IF P = {} THEN ucall.match.isNil
        ELSE LET first == CHOOSE p \in P : \A q \in P :
                            p[1] < q[1] \/ (p[1] = q[1] /\ p[2] <= q[2])
             IN  ucall.match = [ isNil |-> FALSE, Unit |-> U[first[1]].Unit,
                                 Suffix |-> U[first[1]].Suffix ]

\* a name that the timestamp pattern and the duration pattern both match, with
\* the timestamp rule first
C15_Witness ==
  /\ ucall.op = "match" /\ ~globalUnitMatcher.isNil
  /\ ucall.name = Chars("gc_time_seconds")
  /\ Cardinality({ k \in 1..Len(globalUnitMatcher.units) :
                     MatchString(globalUnitMatcher.units[k].re, ucall.name) }) = 2
  /\ ucall.match.Unit = "timestamp"

\* C16: when a pattern of the merged configuration does not compile,
\* compileUnits returns an error and no matcher; and whenever initPatterns
\* fails (unreadable file, unparsable file, pattern that does not compile) the
\* process-wide matcher is what it was before the call.
C16_CompileFailFast ==
  ucall.op = "init" =>
    LET U == ucall.out.merged.Units
    IN  /\ ucall.file.kind \in { "unreadable", "unparsable" } => ucall.out.err
        /\ (/\ ucall.file.kind \in { "none", "ok" }
            /\ \E i \in 1..Len(U) : \E j \in 1..Len(U[i].Matchers) :
                 compileFails(U[i].Matchers[j]))
             => /\ ucall.out.compiled.err
                /\ ucall.out.compiled.um = NilMatcher
                /\ ucall.out.err
        /\ ucall.out.err => globalUnitMatcher = ucall.before

\* a second initPatterns whose file has a pattern that compiles before one
\* that does not: it fails and the matcher of the first call stays
C16_Witness ==
  /\ ucall.op = "init" /\ ucall.out.err
  /\ ucall.file.kind = "ok" /\ Len(ucall.file.Units) = 2
  /\ ucall.file.Units[1].Unit = "custom" /\ ucall.file.Units[2].Unit = "bad"
  /\ ~ucall.before.isNil
  /\ globalUnitMatcher = ucall.before

\* ------------------------------------------------------- navigation state

Max2(a, b) == IF a >= b THEN a ELSE b

\* C17: after any sequence of navigation mutations the name selection is in
\* 0..max(0, len(filtered) - 1), and selectedKey() is filtered[selectedIdx]
\* when the filtered list is not empty and the empty string when it is.
C17_SelectionInRange ==
  /\ 0 <= ui.selectedIdx
  /\ ui.selectedIdx <= Max2(0, Len(ui.filtered) - 1)
  /\ selectedKey(ui) = IF ui.filtered = << >> THEN << >>
                       ELSE ui.filtered[ui.selectedIdx + 1]

\* a filter keeps two of three names and the selection is on the last of them
C17_Witness ==
  /\ applied /\ ui.allKeys = ShortKeys /\ ui.filterText = << "M" >>
  /\ ui.filtered = << Chars("Mem"), Chars("x[M") >>
  /\ ui.selectedIdx = 1
  /\ selectedKey(ui) = Chars("x[M")

\* C18: with the focus on the series table, moveDown moves the series
\* selection by exactly 1 and leaves it in 0..max(0, n - 1), n being the number
\* of series known for the selected name.
C18_SeriesSelectionClamped ==
  [][ (ui.focus = focusSeriesTable /\ ui' = moveDown(ui)) =>
        /\ ui'.seriesIdx = ui.seriesIdx + 1
        /\ 0 <= ui'.seriesIdx
        /\ ui'.seriesIdx <= Max2(0, SeriesKnown(selectedKey(ui')) - 1) ]_vars

\* C19: once the filter has been applied: with an empty text the filtered list
\* is the full list and the valid flag is set; with a text that compiles it is
\* the names the pattern matches without regard to case, in order, and the
\* flag is set; with a text that does not compile it is the names that contain
\* the text without regard to case, and the flag is cleared.
C19_FilterResult ==
  applied =>
    IF ui.filterText = << >>
    THEN ui.filtered = ui.allKeys /\ ui.regexValid
    ELSE IF ~compileFails(ui.filterText)
    THEN /\ ui.regexValid
         /\ ui.filtered =
              SelectSeq(ui.allKeys,
                        LAMBDA k : MatchString(ToLower(ui.filterText), ToLower(k)))
    ELSE /\ ~ui.regexValid
         /\ ui.filtered =
              SelectSeq(ui.allKeys,
                        LAMBDA k : Contains(ToLower(k), ToLower(ui.filterText)))

\* a text that does not compile and is found, in another case, in one name
C19_Witness ==
  /\ applied /\ ui.filterText = << "[", "M" >>
  /\ ~ui.regexValid
  /\ ui.allKeys = ShortKeys
  /\ ui.filtered = << Chars("x[M") >>

\* the page size adjustScroll works with
PageOf(u) == IF u.pageSize <= 0 THEN defaultPageSize ELSE u.pageSize

\* C20: the selected name is always inside the window of the name list,
\* 0 <= scrollOffset <= selectedIdx < scrollOffset + pageSize (30 when unset),
\* and a move down past the bottom of the page leaves the selection on the
\* last row of the window.
C20_SelectionVisible ==
  /\ [](/\ 0 <= ui.scrollOffset
        /\ ui.scrollOffset <= ui.selectedIdx
        /\ ui.selectedIdx < ui.scrollOffset + PageOf(ui))
  /\ [][ (/\ ui.focus = focusSidebar /\ ui' = moveDown(ui)
          /\ ui'.selectedIdx = ui.scrollOffset + PageOf(ui))
           => ui'.scrollOffset = ui'.selectedIdx - PageOf(ui) + 1 ]_vars

\* with the page size unset, the selection on the last of 32 names: the window
\* has scrolled by two
C20_Witness ==
  /\ ui.pageSize = 0 /\ Len(ui.filtered) = MaxNames
  /\ ui.selectedIdx = MaxNames - 1
  /\ ui.scrollOffset = MaxNames - defaultPageSize

\* the names a filter text keeps of a list, and whether the text compiles
FilterOf(keys, text) ==
  IF text = << >> THEN [valid |-> TRUE, keys |-> keys]
  ELSE IF compileFails(text)
  THEN [ valid |-> FALSE,
         keys |-> SelectSeq(keys, LAMBDA k : Contains(ToLower(k), ToLower(text))) ]
  ELSE [ valid |-> TRUE,
         keys |-> SelectSeq(keys, LAMBDA k : MatchString(ToLower(text), ToLower(k))) ]

\* C27: setKeys called with a list equal to the known list changes nothing at
\* all; called with a different list it replaces the known list and applies
\* the current filter to it.
C27_SetKeysSameListNoOp ==
  [][ (rf.pc = "idle" /\ rf'.pc = "snapshot") =>
        IF rf'.names = ui.allKeys
        THEN ui' = ui
        ELSE /\ ui'.allKeys = rf'.names
             /\ ui'.filterText = ui.filterText
             /\ ui'.filtered = FilterOf(rf'.names, ui.filterText).keys
             /\ ui'.regexValid = FilterOf(rf'.names, ui.filterText).valid ]_vars

\* the refresh tick has called setKeys with the list already known, under a
\* filter and with the second series row selected: the row is still selected
C27_Witness ==
  /\ rf.pc = "snapshot" /\ rf.names = ui.allKeys
  /\ ui.filterText # << >>
  /\ ui.seriesIdx = 1 /\ ui.focus = focusSeriesTable

\* C28: with the focus on the name list, a moveUp or moveDown moves the name
\* selection by at most 1, within range, and leaves seriesIdx = 0 and
\* seriesScroll = 0, also when the selection is on the first or the last name.
C28_NameMoveResetsSeries ==
  ui.focus = focusSidebar =>
    \A r \in { moveUp(ui), moveDown(ui) } :
      /\ r.selectedIdx - ui.selectedIdx \in { -1, 0, 1 }
      /\ 0 <= r.selectedIdx /\ r.selectedIdx <= Max2(0, Len(r.filtered) - 1)
      /\ r.seriesIdx = 0 /\ r.seriesScroll = 0

\* C30: an operation that applies the filter again (a changed filter text, a
\* changed name list, clearFilter) ends with seriesIdx = 0, seriesScroll = 0,
\* the name selection inside the new filtered list and
\* scrollOffset = max(0, selectedIdx - pageSize + 1); backspaceFilter on an
\* empty filter text changes nothing.
C30_FilterResetsSeriesAndScroll ==
  /\ [](ui.filterText = << >> => backspaceFilter(ui) = ui)
  /\ [][ (\/ ui'.filterText # ui.filterText
          \/ ui'.allKeys # ui.allKeys
          \/ (ui.filterText = << >> /\ ui' = clearFilter(ui)))
         => /\ ui'.seriesIdx = 0 /\ ui'.seriesScroll = 0
            /\ 0 <= ui'.selectedIdx
            /\ ui'.selectedIdx <= Max2(0, Len(ui'.filtered) - 1)
            /\ ui'.scrollOffset =
                 Max2(0, ui'.selectedIdx - PageOf(ui') + 1) ]_vars

\* a filter typed with the sixth of 32 names selected on pages of 3: the
\* selection stays, the window is set to end on it
C30_Witness ==
  /\ applied /\ ui.filterText # << >> /\ ui.pageSize = 3
  /\ Len(ui.filtered) = MaxNames
  /\ ui.selectedIdx = 5 /\ ui.scrollOffset = 3
  /\ ui.seriesIdx = 0 /\ ui.seriesScroll = 0

\* ------------------------------------------------ claims: scrape scheduling

\* a call of scrapeTarget that has begun and not returned
Running(j) == job[j].pc \in {"get", "scan"}

\* C23: in every scrape round, the eager one as well as each periodic one,
\* the scrape of each target starts without waiting for the scrape of another
\* target to finish: while a scrape of a round is under way, no scrape of that
\* round is still waiting to begin.
C23_ScrapesStartIndependently ==
  \A j, k \in SchedTasks :
    (j[1] = k[1] /\ Running(j)) => job[k].pc # "none"

\* C24: from the moment the cancellation signal is raised, no further scrape
\* is begun.
C24_NoScrapeAfterCancel ==
  [][ cancelled =>
        \A j \in SchedTasks : job[j].pc = "none" => job'[j].pc = "none" ]_vars

\* C25: within one scrape of one target no store.update is made until the
\* response body has been read completely.
C25_BodyReadBeforeUpdate ==
  \A j \in SchedTasks :
    job[j].log # << >> =>
      /\ job[j].pos = Len(job[j].resp.body)
      /\ job[j].resp.failAt = NoFail

\* ------------------------------------------------ claims: rate applicability

\* a name without its _count or _sum suffix
FamilyOf(name) ==
  IF HasSuffix(name, Chars("_count")) THEN SliceTo(name, Len(name) - 6)
  ELSE IF HasSuffix(name, Chars("_sum")) THEN SliceTo(name, Len(name) - 4)
  ELSE name

\* the types the TYPE lines of a body declare for a family
DeclaredTypes(body, family) ==
  { Ann[body[i]].text :
      i \in { h \in 1..Len(body) : /\ Ann[body[h]].kind = "type"
                                   /\ Ann[body[h]].name = family } }

\* C29: a series ingested from a family declared histogram or summary, whose
\* sample name ends in _count or _sum, is rate-applicable, exactly like a
\* series of a family declared counter; every other series is not.
C29_RateApplicableEndToEnd ==
  job[ParseCall].pc = "done" =>
    \A p \in 1..Len(st.heap) :
      LET s    == st.heap[p]
          body == job[ParseCall].resp.body
      IN  shouldRate(s) <=>
            \/ Chars("counter") \in DeclaredTypes(body, s.name)
            \/ /\ FamilyOf(s.name) # s.name
               /\ DeclaredTypes(body, FamilyOf(s.name))
                    \cap { Chars("histogram"), Chars("summary") } # {}

\* ------------------------------------------------ claims: series table

\* C21: after any sequence of navigation mutations and refresh-tick clamps,
\* 0 <= seriesScroll <= seriesIdx < seriesScroll + 10, and seriesScroll never
\* exceeds the index of the last series of the selected name.
C21_SeriesSelectionVisible ==
  /\ 0 <= ui.seriesScroll
  /\ ui.seriesScroll <= ui.seriesIdx
  /\ ui.seriesIdx < ui.seriesScroll + defaultSeriesPageSize
  /\ ui.seriesScroll <= Max2(0, TableSeries(selectedKey(ui)) - 1)

\* ------------------------------------------------ claims: keyboard

\* C26: in filter mode Esc clears the filter text and leaves filter mode
\* without ending the session; outside filter mode Esc clears a filter text
\* that is not empty without ending the session and ends the session only when
\* the text is empty; Enter leaves filter mode and keeps the text; in filter
\* mode a printable key is added to the text and triggers no quit, no
\* navigation and no change of the rate window.
C26_EscProtocol ==
  LET S    == Session(ui, cancelled, rws)
      R(k) == keyboardSubscriber(S, k)
      esc  == R("Esc")
  IN  ~cancelled =>
        IF ui.filterMode
        THEN /\ esc.ui.filterText = << >>
             /\ ~esc.ui.filterMode
             /\ ~esc.cancelled
             /\ R("Enter") = [S EXCEPT !.ui.filterMode = FALSE]
             /\ \A k \in PrintableKeys :
                  LET r == R(k)
                  IN  /\ r.ui.filterText = Append(ui.filterText, k)
                      /\ r.ui.filterMode
                      /\ r.ui.focus = ui.focus
                      /\ r.ui.allKeys = ui.allKeys
                      /\ ~r.cancelled
                      /\ r.rws = rws
        ELSE /\ ui.filterText # << >> =>
                  /\ esc.ui.filterText = << >>
                  /\ ~esc.cancelled
                  /\ esc.rws = rws
             /\ esc.cancelled <=> ui.filterText = << >>

\* the keys q and [ were typed as a filter and confirmed with Enter: the
\* session goes on, the rate window is the one it was, the text is kept
C26_Witness ==
  /\ ~cancelled /\ ~ui.filterMode
  /\ ui.filterText = << "q", "[" >>
  /\ rws = defaultRateWindowIdx
  /\ ui.focus = focusSidebar

\* ------------------------------------------------ claims: refresh tick

\* C22: in every refresh tick the values the name list is drawn from
\* (filtered list, selection index, scroll offset, filter text, focus, valid
\* flag) and the values the series table is drawn from (selected name, series
\* selection, series scroll, focus) each belong to one navigation state the
\* session was in during the tick.
C22_RenderedFromOneState ==
  /\ rf.pc = "clamp" =>
       \E u \in rf.seen :
         /\ uiSnapshot(u) = rf.list
         /\ u.focus = rf.ser.focus
         /\ u.regexValid = rf.ser.regexOK
  /\ rf.pc = "table" =>
       \E u \in rf.seen :
         /\ selectedKey(u) = rf.selName
         /\ u.seriesIdx = rf.ser.seriesIdx
         /\ u.seriesScroll = rf.ser.seriesScroll
         /\ u.focus = rf.ser.focus

\* C31: store.update touches only the series of its own key.  Every step of
\* an update keeps every key, its series object, every name and every entry
\* of the key list; a series object changes only while the task that holds
\* the write lock is pushing into it; a creation adds exactly the key of the
\* call with an empty buffer; and a completed push has added exactly one
\* sample, the value of the call, to the series as it was when the push began.
C31_UpdateTouchesOwnSeriesOnly ==
  [][ /\ \A k \in DOMAIN st.series :
            k \in DOMAIN st'.series /\ st'.series[k] = st.series[k]
      /\ Elems(st.order) \subseteq Elems(st'.order)
      /\ st.nameSet \subseteq st'.nameSet
      /\ Elems(st.metricNames) \subseteq Elems(st'.metricNames)
      /\ Len(st.heap) <= Len(st'.heap)
      /\ \A p \in 1..Len(st.heap) :
            st'.heap[p] # st.heap[p] => \E t \in Scrapers : mu = t /\ tk[t].ptr = p
      /\ st'.series # st.series => \E t \in Scrapers : mu = t /\ tk[t].pc = "create"
      /\ \A t \in Scrapers :
            /\ (tk[t].pc = "create" /\ tk'[t].pc = "now") =>
                  /\ DOMAIN st'.series = DOMAIN st.series \cup {tk[t].key}
                  /\ Len(st'.heap) = Len(st.heap) + 1
                  /\ count(st'.heap[st'.series[tk[t].key]]) = 0
            /\ (tk[t].pc = "full" /\ tk'[t].pc = "unlock") =>
                  LET was == tk[t].before
                      is  == st'.heap[tk[t].ptr]
                  IN  /\ is = pushAt(was, tk[t].value, tk[t].now)
                      /\ count(is) = Min2(count(was) + 1, ringSize)
                      /\ last(is) = tk[t].value
                      /\ st'.series[tk[t].key] = tk[t].ptr ]_vars

\* C31 witness: an update has completed its push while another series of the
\* store holds samples
C31_Witness ==
  \E t \in Scrapers :
    /\ tk[t].pc = "unlock"
    /\ \E p \in 1..Len(st.heap) : p # tk[t].ptr /\ count(st.heap[p]) > 0

\* C32: ring index invariant.  After n pushes the write index is n mod
\* ringSize and lies in 0..ringSize - 1; the full flag is false while
\* n < ringSize and true from the ringSize-th push on; count() is
\* min(n, ringSize); and no push clears the flag.
C32_RingIndexInvariant ==
  /\ [](LET n == Len(pushed)
        IN  /\ rb.idx = n % ringSize
            /\ rb.idx \in 0..ringSize - 1
            /\ rb.full = (n >= ringSize)
            /\ count(rb) = Min2(n, ringSize)
            /\ count(rb) <= ringSize)
  /\ [][ /\ rb.full => rb'.full
         /\ (~rb.full /\ rb'.full) => (Len(pushed') = ringSize /\ rb'.idx = 0) ]_vars

\* C32 witness: the index has wrapped twice and the buffer is still full
C32_Witness ==
  /\ Len(pushed) = 2 * ringSize + 1
  /\ rb.idx = 1
  /\ rb.full

\* C33: rateSlice does not depend on its window.  For every buffer content
\* and every two windows the two results are equal, and each is nil with
\* fewer than 2 retained samples and else holds, for the k-th consecutive
\* pair of the whole buffer, max(0, v[k+1] - v[k]) / (t[k+1] - t[k]), or 0
\* when no time has passed between the two samples.
C33_RateSliceIgnoresWindow ==
  LET R == Retained
      whole == IF Len(R) < 2 THEN NilSlice
               ELSE MadeSlice([k \in 1..Len(R) - 1 |-> RateBetween(R[k], R[k + 1])])
  IN  \E want \in {whole} :
        \E got \in { <<rateSlice(rs, 1), rateSlice(rs, 2), rateSlice(rs, 60)>> } :
          /\ RateWindows = {1, 2, 60}
          /\ \A i \in 1..3 : got[i] = want
          /\ \A i, j \in 1..3 : got[i] = got[j]

\* C33 witness: a wrapped buffer for which the scalar rate differs between
\* the 1 s and the 60 s window while rateSlice is the same for both
C33_Witness ==
  /\ rs.full /\ Len(hist) > ringSize
  /\ rate(rs, 1) # rate(rs, 60)
  /\ rateSlice(rs, 1) = rateSlice(rs, 60)
  /\ Len(rateSlice(rs, 1).elems) = ringSize - 1

\* C34: the rate-window index never leaves the step table, whatever calls of
\* rateWindowUp, rateWindowDown and rateWindowSet run and however they
\* interleave.  Up and Down move by exactly one step and change nothing at
\* the last and the first step; rateWindowSet(d) selects the smallest step
\* >= d, or the last step (60 s) when d exceeds every step.
C34_RateWindowInTable ==
  /\ rws \in 0..Len(rateWindowSteps) - 1
  /\ rateWindowSteps = <<1, 2, 5, 10, 15, 30, 60>>
  /\ \A t \in WinCallers :
       rwcall.c[t].pc = "unlock" =>
         LET c == rwcall.c[t]
             atLeast == { rateWindowSteps[i] : i \in { j \in 1..Len(rateWindowSteps) :
                                                         rateWindowSteps[j] * Second >= c.d } }
         IN  /\ c.op = "up" =>
                  rws = IF c.from = Len(rateWindowSteps) - 1 THEN c.from ELSE c.from + 1
             /\ c.op = "down" => rws = IF c.from = 0 THEN 0 ELSE c.from - 1
             /\ c.op = "set" =>
                  rateWindowSteps[rws + 1] = IF atLeast = {} THEN 60 ELSE MinOf(atLeast)

\* C34 witness: rateWindowSet(1.5 s) has moved the window from 60 s to 2 s
\* while the other caller waits for the mutex
C34_Witness ==
  /\ rwcall.c["c1"].pc = "unlock" /\ rwcall.c["c1"].op = "set"
  /\ rwcall.c["c1"].d = 1500 /\ rwcall.c["c1"].from = 6
  /\ rws = 1
  /\ rwcall.c["c2"].pc = "lock" /\ rwcall.c["c2"].op = "up"

\* C35: isCounter is true of a series whose declared type is counter or
\* whose name ends in _total, whatever its declared type, and false of
\* every other series.
C35_IsCounterByTypeOrName ==
  \A p \in 1..Len(st.heap) :
    LET s == st.heap[p]
    IN  isCounter(s) <=>
          (s.mtype = Chars("counter") \/ HasSuffix(s.name, Chars("_total")))

\* C36: in every series, when no push is under way, the timestamps of the
\* retained samples are non-decreasing in the order slice() gives the
\* samples, however the scrape tasks interleave: every sample is stamped
\* with the current time while its task holds the write lock.
C36_TimestampsNonDecreasing ==
  NoPushUnderWay =>
    \A p \in 1..Len(st.heap) :
      LET T == timesSlice(st.heap[p])
      IN  /\ Len(T) = count(st.heap[p])
          /\ \A k \in 1..Len(T) - 1 : T[k] <= T[k + 1]

\* C36 witness: two tasks have pushed into the same series, the clock
\* advanced between their pushes, and the second push wrapped the ring
C36_Witness ==
  /\ \A t \in Scrapers : tk[t].pc = "idle"
  /\ ncalls = 2 /\ ticks = 1
  /\ <<"a">> \in DOMAIN completed
  /\ LastOf(completed[<<"a">>], 2) = <<ringSize + 1, ringSize>>
  /\ LET s == st.heap[st.series[<<"a">>]]
     IN  /\ s.full /\ s.idx = 1
         /\ timesSlice(s)[ringSize - 1] = ringSize
         /\ timesSlice(s)[ringSize] = ringSize + 1

\* C37: the metadata of a series is fixed at its first observation.  Every
\* series carries the name, labels, help text and type of the first
\* st.update made for its key, and no later step changes the key, name,
\* labels, help text or type of a series, whatever help or type the later
\* updates carry.
C37_MetadataFixedAtFirstObservation ==
  /\ [](\A p \in 1..Len(st.heap) :
          LET s    == st.heap[p]
              log  == job[ParseCall].log
              mine == { i \in 1..Len(log) :
                          \E order \in RangeOrders(log[i].call.labels) :
                            seriesKey(log[i].call.name, log[i].call.labels, order) = s.key }
          IN  /\ mine # {}
              /\ LET c == log[MinOf(mine)].call
                 IN  /\ s.name = c.name /\ s.labels = c.labels
                     /\ s.help = c.help /\ s.mtype = c.mtype)
  /\ [][ \A p \in 1..Len(st.heap) :
           /\ st'.heap[p].key = st.heap[p].key
           /\ st'.heap[p].name = st.heap[p].name
           /\ st'.heap[p].labels = st.heap[p].labels
           /\ st'.heap[p].help = st.heap[p].help
           /\ st'.heap[p].mtype = st.heap[p].mtype ]_vars

\* C37 witness: the series b was first observed without a type, a later
\* update for b carried the type counter, and the series is still untyped
C37_Witness ==
  /\ job[ParseCall].pc = "done"
  /\ Len(job[ParseCall].log) = 2
  /\ job[ParseCall].log[1].call.name = <<"b">>
  /\ job[ParseCall].log[1].call.mtype = << >>
  /\ job[ParseCall].log[2].call.name = <<"b">>
  /\ job[ParseCall].log[2].call.mtype = Chars("counter")
  /\ Len(st.heap) = 1
  /\ st.heap[1].mtype = << >>
  /\ count(st.heap[1]) = 2

\* the st.update calls made so far for the series key k, by every call of
\* scrapeTarget for every target
CallsFor(k) ==
  { <<j, i>> \in { <<j, i>> \in SchedTasks \X (1..MaxBodyLen) : i <= Len(job[j].log) } :
      \E order \in RangeOrders(job[j].log[i].call.labels) :
        seriesKey(job[j].log[i].call.name, job[j].log[i].call.labels, order) = k }

\* C38: series identity does not include the scrape target.  The store holds
\* one series per key; its buffer holds one sample for every st.update made
\* for that key by the scrapes of all targets together; and every update
\* appends its value behind the samples that arrived before it, whichever
\* target they came from.
C38_OneSeriesForAllTargets ==
  /\ [](/\ \A p, q \in 1..Len(st.heap) : st.heap[p].key = st.heap[q].key => p = q
        /\ \A k \in DOMAIN st.series :
             /\ st.heap[st.series[k]].key = k
             /\ count(st.heap[st.series[k]]) = Cardinality(CallsFor(k)))
  /\ [][ \A j \in SchedTasks :
           Len(job'[j].log) > Len(job[j].log) =>
             LET c == job'[j].log[Len(job'[j].log)].call
             IN  \E key \in DOMAIN st'.series :
                   /\ \E order \in RangeOrders(c.labels) :
                        key = seriesKey(c.name, c.labels, order)
                   /\ slice(st'.heap[st'.series[key]]) =
                        (IF key \in DOMAIN st.series
                         THEN slice(st.heap[st.series[key]]) ELSE << >>)
                          \o <<c.val>> ]_vars

\* C38 witness: the only series, a, holds four samples: those of the eager
\* round from t1 and then t2, and those of the first periodic round, where
\* the sample of t2 arrived before the sample of t1
C38_Witness ==
  /\ Len(st.heap) = 1
  /\ st.heap[1].key = <<"a">>
  /\ slice(st.heap[1]) =
       << ParseFloat(<<"1">>).val, ParseFloat(<<"7">>).val,
          ParseFloat(<<"7">>).val, ParseFloat(<<"1">>).val >>
  /\ \A j \in SchedTasks : job[j].pc = "done" /\ Len(job[j].log) = 1

\* C39: when setKeys receives a changed name list the selection is kept by
\* position, not by name: afterwards selectedIdx is min(old selectedIdx,
\* max(0, len(filtered) - 1)), and when the name selected before now stands
\* further down the filtered list, selectedKey() returns another name.
C39_SelectionKeptByPosition ==
  [][ (rf.pc = "idle" /\ rf'.pc = "snapshot" /\ rf'.names # ui.allKeys) =>
        /\ ui'.selectedIdx = Min2(ui.selectedIdx, Max2(0, Len(ui'.filtered) - 1))
        /\ \A i \in 1..Len(ui'.filtered) :
             (ui'.filtered[i] = selectedKey(ui) /\ i - 1 > ui.selectedIdx) =>
               /\ selectedKey(ui') = ui'.filtered[ui.selectedIdx + 1]
               /\ selectedKey(ui') # selectedKey(ui) ]_vars

\* C39 witness: cpu was selected at position 1 when the list grew by abc,
\* which sorts before it; the selection is still at position 1 and names abc
C39_Witness ==
  /\ rf.pc = "snapshot"
  /\ rf.names = GrownKeys /\ ui.allKeys = GrownKeys
  /\ rf.was = Chars("cpu") /\ rf.had = ShortKeys
  /\ ui.selectedIdx = 1
  /\ selectedKey(ui) = Chars("abc")

\* C40: when the second-newest sample of the buffer is older than
\* t_n - window, rate(window) is 0 whatever the values are: the scan stops
\* on its first sample, the newest sample stays its own baseline and no time
\* has elapsed.
C40_RateZeroWhenWindowTooShort ==
  (rq.q.asked /\ Len(hist) >= 2
     /\ hist[Len(hist) - 1].t < hist[Len(hist)].t - rq.q.window) =>
    /\ rq.q.rate = FZero
    /\ rq.q.oldest = newestIdx(rs)
    /\ Len(rq.q.reads) = 1

\* C40 witness: a wrapped buffer whose last two samples rise from 1 to 3 and
\* lie 3 s apart, asked for its rate over 2 s
C40_Witness ==
  /\ rq.q.asked /\ rq.q.window = 2
  /\ rs.full /\ Len(hist) > ringSize
  /\ hist[Len(hist)].v = FNum(3) /\ hist[Len(hist) - 1].v = FNum(1)
  /\ hist[Len(hist)].t = hist[Len(hist) - 1].t + 3
  /\ rq.q.rate = FZero

====
